---- MODULE Spec2Model ----
(***************************************************************************)
(* The AI navigation agent of nova-shop-desk: the useNavigator hook        *)
(* (executeCommand loop), the DOM observer (collectInteractiveElements),   *)
(* the executor (validateAction / executeAction) and the helpers they use. *)
(*                                                                         *)
(* One step of the model is one run-to-completion block of the event loop: *)
(* the code between two awaits of executeCommand, a call of one of the     *)
(* hook's callbacks, a re-render of the component, or a change of the page *)
(* made by the application.                                                *)
(***************************************************************************)
EXTENDS Integers, Sequences, FiniteSets, TLC

VARIABLES
    state,        \* the hook's React state (useNavigator.ts:25-30)
    rendered,     \* the state captured by the callbacks of the latest render
    sess,         \* one activation record per executeCommand invocation
    caller,       \* how the hook's callbacks are called (see MayCall)
    planner,      \* the planner behind the endpoint (see PlannerReplies)
    calls,        \* calls of the hook's callbacks made so far
    commands,     \* executeCommand invocations made so far
    page,         \* the document: elements in document order
    lastScan,     \* the elements of the most recent scan, by issued id
    requests,     \* planner requests issued so far
    pageChanges,  \* page changes made by the application so far
    utterance,    \* the text last given to CommandParser.parse
    parsed,       \* the ParsedCommand it returned
    location,     \* the route of the application (react-router)
    store,        \* the StoreState of StoreContext
    messages,     \* the messages of the assistant panel (AIAgent.tsx:27-34)
    isProcessing, \* the assistant's processing flag (AIAgent.tsx:35)
    last,         \* what the latest handleCommand call did
    typing,       \* the activation record of executeType (Executor.ts:78-147)
    exec,         \* the activation record of executeAction (Executor.ts:8-52)
    styles,       \* the inline style of each element (DomObserver.ts:52-60)
    timers        \* the pending highlight timers (DomObserver.ts:63-67)

vars == <<state, rendered, sess, caller, planner, calls, commands, page, lastScan, requests, pageChanges,
          utterance, parsed, location, store, messages, isProcessing, last, typing,
          exec, styles, timers>>

navigatorVars ==
    <<state, rendered, sess, caller, planner, calls, commands, page, lastScan, requests, pageChanges>>

parserVars == <<utterance, parsed>>

dispatcherVars == <<location, store, messages, isProcessing, last>>

highlighterVars == <<styles, timers>>

executorVars == <<typing, exec, highlighterVars>>

----------------------------------------------------------------------------
(* Bounds of the model *)

NumElems == 2
MaxCalls == 2
MaxRequests == 2
MaxPageChanges == 1

(* Program constants *)

MAX_STEPS == 6
MaxQueryLength == 500

ERROR_MESSAGES ==
    [ NO_INTERACTIVE_ELEMENTS |-> "No interactive elements found on the page",
      ELEMENT_NOT_FOUND       |-> "Element not found on the page",
      INVALID_ACTION          |-> "Invalid action received from backend",
      API_ERROR               |-> "Failed to communicate with AI backend",
      MAX_STEPS_EXCEEDED      |-> "Command execution stopped to prevent infinite loop",
      EMPTY_COMMAND           |-> "Please enter a command",
      ALREADY_PROCESSING      |-> "Navigator is already processing a command" ]

ConfiguredMessages ==
    { ERROR_MESSAGES.NO_INTERACTIVE_ELEMENTS, ERROR_MESSAGES.ELEMENT_NOT_FOUND,
      ERROR_MESSAGES.INVALID_ACTION, ERROR_MESSAGES.API_ERROR,
      ERROR_MESSAGES.MAX_STEPS_EXCEEDED, ERROR_MESSAGES.EMPTY_COMMAND,
      ERROR_MESSAGES.ALREADY_PROCESSING }

----------------------------------------------------------------------------
(* Values *)

Null == "null"                 \* error: string | null
Undefined == -1                \* elementId?: number
NullAction == [action |-> "null", elementId |-> Undefined]

Min(a, b) == IF a < b THEN a ELSE b

(* Strings are sequences of characters. *)
Whitespace == {" ", "\t"}

(* the characters of s from the first one that is not whitespace *)
TrimStart(s) ==
    LET kept == SelectSeq([i \in 1..Len(s) |-> i],
                          LAMBDA i : \E j \in 1..i : s[j] \notin Whitespace)
    IN  [k \in 1..Len(kept) |-> s[kept[k]]]

(* the characters of s up to the last one that is not whitespace *)
TrimEnd(s) ==
    LET kept == SelectSeq([i \in 1..Len(s) |-> i],
                          LAMBDA i : \E j \in i..Len(s) : s[j] \notin Whitespace)
    IN  [k \in 1..Len(kept) |-> s[kept[k]]]

Trim(s) == TrimEnd(TrimStart(s))

(* replace(/\s+/g, ' '): every run of whitespace becomes one space *)
CollapseWhitespace(s) ==
    LET kept == SelectSeq([i \in 1..Len(s) |-> i],
                          LAMBDA i : s[i] \notin Whitespace \/ i = 1
                                       \/ s[i - 1] \notin Whitespace)
    IN  [k \in 1..Len(kept) |-> IF s[kept[k]] \in Whitespace THEN " " ELSE s[kept[k]]]

sanitizeInput(input) ==
    LET t == CollapseWhitespace(Trim(input))
    IN  SubSeq(t, 1, Min(Len(t), MaxQueryLength))

(* Thrown values: every value thrown in executeCommand is an Error object. *)
Error(msg) == [isError |-> TRUE, message |-> msg]

formatError(error) ==
    IF error.isError THEN error.message ELSE "An unexpected error occurred"

----------------------------------------------------------------------------
(* The page.  Every element of the model matches INTERACTIVE_SELECTORS; its  *)
(* position in 1..NumElems is its document order.  agentId is the element's  *)
(* data-agent-id attribute (Undefined when the attribute is absent).         *)

Elements == 1..NumElems

(* kind tells the form controls (input, button, select, textarea) from the   *)
(* other matched elements (links, [role="button"], ...); disabled is the     *)
(* disabled property of a control and the disabled attribute of any other    *)
(* element; ariaDisabled is aria-disabled="true".                            *)
FreshElement ==
    [inDom |-> FALSE, visible |-> TRUE, kind |-> "control", disabled |-> FALSE,
     ariaDisabled |-> FALSE, agentId |-> Undefined]

isElementVisible(el) == el.visible

isElementDisabled(el) ==
    IF el.kind = "control" THEN el.disabled
    ELSE el.disabled \/ el.ariaDisabled

(* document.querySelectorAll(selectors), in document order *)
querySelectorAll(pg) == SelectSeq([i \in 1..NumElems |-> i], LAMBDA e : pg[e].inDom)

(* the filter of collectInteractiveElements *)
visibleElements(pg) ==
    SelectSeq(querySelectorAll(pg),
              LAMBDA e : isElementVisible(pg[e]) /\ ~isElementDisabled(pg[e]))

(* The elements the scan leaves tagged: el.dataset.agentId = index for the   *)
(* elements of the filtered list, every other element keeps what it had.     *)
TagElements(pg, snap) ==
    [e \in Elements |->
        IF \E i \in 1..Len(snap) : snap[i] = e
        THEN [pg[e] EXCEPT !.agentId = (CHOOSE i \in 1..Len(snap) : snap[i] = e) - 1]
        ELSE pg[e]]

(* collectInteractiveElements: the descriptor list (element i of the list    *)
(* has id i - 1) and the page with the ids written back.                     *)
collectInteractiveElements(pg) ==
    LET snap == visibleElements(pg)
    IN  [snapshot |-> snap, page |-> TagElements(pg, snap)]

(* document.querySelector(`[data-agent-id="${id}"]`): the first element in   *)
(* document order that carries the attribute value, 0 for null.              *)
querySelector(pg, id) ==
    LET hits == {e \in Elements : pg[e].inDom /\ pg[e].agentId = id}
    IN  IF hits = {} THEN 0 ELSE CHOOSE e \in hits : \A f \in hits : e <= f

(* the validation, accepting every action *)
AcceptsEveryAction(pg, action) == TRUE

validateAction(pg, action) ==
    IF action.action = "DONE" THEN TRUE
    ELSE IF action.elementId = Undefined THEN FALSE
    ELSE querySelector(pg, action.elementId) # 0

----------------------------------------------------------------------------
(* The hook's state and the activation records of executeCommand. *)

InitialState ==
    [isProcessing |-> FALSE, history |-> <<>>, error |-> Null, lastAction |-> NullAction]

(* What the callbacks of a render close over: executeCommand reads           *)
(* state.isProcessing and state.history of the render that created it.       *)
RenderOf(st) == [isProcessing |-> st.isProcessing, history |-> st.history]

Committed == rendered = RenderOf(state)

(* What a command leaves in the hook's state by its last update. *)
FinalOf(st) ==
    [ isProcessing |-> st.isProcessing,
      error        |-> st.error,
      lastAction   |-> st.lastAction,
      lastEntry    |-> IF st.history = <<>> THEN NullAction
                       ELSE st.history[Len(st.history)] ]

NoFinal == FinalOf(InitialState)

NoSession ==
    [ pc             |-> "unused",
      sanitizedQuery |-> <<>>,
      stepCount      |-> 0,
      currentHistory |-> <<>>,
      action         |-> NullAction,
      element        |-> 0,
      \* bookkeeping for the properties
      scans          |-> 0,
      plannerCalls   |-> 0,
      started        |-> 0,        \* executeAction calls made
      executed       |-> 0,        \* interactions performed on the page
      completed      |-> 0,        \* executeAction calls that returned
      appended       |-> 0,        \* history writes made by this command
      validated      |-> 0,        \* planner actions that passed validateAction
      heldHistory    |-> <<>>,     \* the hook's history when the command was called
      performed      |-> <<>>,     \* the actions executed so far, in order
      malformed      |-> FALSE,    \* a response failed the structure check
      discarded      |-> FALSE,    \* clearHistory was called during the pending planner call
      stale          |-> 0,        \* entries of currentHistory that clearHistory has erased
      afterFailure   |-> FALSE,    \* called after a command failed, none running
      emptyScan      |-> FALSE,    \* a scan of this command returned no element
      unresolved     |-> FALSE,    \* a CLICK/TYPE reply resolved to no element
      overdue        |-> FALSE,    \* REQUEST_TIMEOUT elapsed during a planner call
      aborted        |-> FALSE,    \* controller.abort() was called
      plannerFailure |-> FALSE,    \* a planner call failed
      stub           |-> TRUE,     \* every reply so far was a CLICK that resolved
      thrown         |-> Null,     \* message of the error that ended the command
      final          |-> NoFinal ] \* the hook's state as the command left it

Running == {"fetch", "body", "settle", "acting", "stepDelay"}

Sessions == 1..MaxCalls

(* Inputs *)
Queries == { <<>>, <<" ", "\t">>, <<" ", "g", "o", " ", " ", "x", " ">> }

DoneReply == [action |-> "DONE", elementId |-> Undefined]

(* What response.json() can yield: an action, or something else. *)
Replies ==
    [action : {"CLICK"}, elementId : 0..NumElems \cup {Undefined}]
      \cup { [action |-> "TYPE", elementId |-> 0],
             DoneReply,
             [action |-> "HOVER", elementId |-> 0],
             [action |-> "", elementId |-> Undefined] }

KnownActions == {"CLICK", "TYPE", "DONE"}

(* the structure check of sendToBackend, left out *)
EveryResponseIsValid(data) == FALSE

(* the structure check of sendToBackend *)
InvalidResponse(data) == data.action = "" \/ data.action \notin KnownActions

ElementNotFoundMessage(action) ==
    ERROR_MESSAGES.ELEMENT_NOT_FOUND \o ": " \o ToString(action.elementId)

(* the catch block, without clearing isProcessing *)
CatchKeepsProcessing(st, error) == [st EXCEPT !.error = formatError(error)]

(* the catch block of executeCommand *)
Catch(st, error) ==
    [st EXCEPT !.isProcessing = FALSE, !.error = formatError(error)]

(* The activation record of an invocation that has returned: its locals are  *)
(* gone, the bookkeeping stays.                                              *)
Returned(se, how) ==
    [se EXCEPT !.pc = how, !.sanitizedQuery = <<>>, !.currentHistory = <<>>,
               !.action = NullAction, !.element = 0, !.overdue = FALSE,
               !.heldHistory = <<>>, !.performed = <<>>, !.discarded = FALSE,
               !.stale = 0]

Throw(s, st, se, error) ==
    /\ state' = Catch(st, error)
    /\ sess' = [sess EXCEPT ![s] =
                  [Returned(se, "failed") EXCEPT !.thrown = error.message,
                                                 !.final = FinalOf(Catch(st, error))]]

(* the loop condition, off by one *)
LoopGuardInclusive(stepCount) == stepCount <= MAX_STEPS

(* the loop condition *)
LoopGuard(stepCount) == stepCount < MAX_STEPS

(* the empty-scan check, left out *)
ScanIsNeverEmpty(snapshot) == FALSE

ScanIsEmpty(snapshot) == Len(snapshot) = 0

(* The planner is an external service.  "any": it may answer each request    *)
(* with any reply; the model follows it for MaxRequests requests, and every  *)
(* later request is answered DONE.  "terse": it answers CLICK on element 0   *)
(* or DONE.  "stub": the planner of the                                      *)
(* loop-termination test, which answers every request with a CLICK on        *)
(* element 0; MAX_STEPS bounds the requests of a command.                    *)
StubReply == [action |-> "CLICK", elementId |-> 0]

PlannerReplies ==
    IF planner = "stub" THEN {StubReply}
    ELSE IF requests > MaxRequests THEN {DoneReply}
    ELSE IF planner = "terse" THEN {StubReply, DoneReply}
    ELSE Replies

(* requests counts up to MaxRequests + 1: "more than the model follows" *)
MayRequest == TRUE

(* One pass from the loop head to the first await: the loop condition, the   *)
(* scan, the empty-scan check and the issue of the planner request.          *)
RunLoop(s, st, se) ==
    IF LoopGuard(se.stepCount)
    THEN LET scan == collectInteractiveElements(page)
             se1  == [se EXCEPT !.stepCount = @ + 1, !.scans = @ + 1,
                                !.emptyScan = scan.snapshot = <<>>]
         IN  /\ page' = scan.page
             /\ lastScan' = scan.snapshot
             /\ IF ScanIsEmpty(scan.snapshot)
                THEN /\ Throw(s, st, se1, Error(ERROR_MESSAGES.NO_INTERACTIVE_ELEMENTS))
                     /\ requests' = requests
                ELSE /\ MayRequest
                     /\ requests' = Min(requests + 1, MaxRequests + 1)
                     /\ state' = st
                     /\ sess' = [sess EXCEPT ![s] =
                                   [se1 EXCEPT !.pc = "fetch",
                                               !.plannerCalls = @ + 1,
                                               !.overdue = FALSE,
                                               !.discarded = FALSE]]
    ELSE /\ Throw(s, st, se, Error(ERROR_MESSAGES.MAX_STEPS_EXCEEDED))
         /\ UNCHANGED <<page, lastScan, requests>>

(* A callback of the hook may be called: from the rendered component (a DOM  *)
(* event handler, which runs after React has committed the last update), or  *)
(* at any moment by a caller that holds the callback.                        *)
CallBudget == IF planner = "terse" THEN MaxCalls + 1 ELSE MaxCalls

MayCall ==
    /\ calls < CallBudget
    /\ caller = "ui" => Committed

(* the entry guard *)
AlreadyProcessing == rendered.isProcessing

(* executeCommand(query), up to its first await *)
ExecuteCommand(q) ==
    /\ MayCall
    /\ commands < MaxCalls
    /\ calls' = calls + 1
    /\ commands' = commands + 1
    /\ UNCHANGED <<rendered, caller, planner, parserVars, dispatcherVars, executorVars, pageChanges>>
    /\ LET s  == commands + 1
           sq == sanitizeInput(q)
           idle == /\ \A t \in Sessions : sess[t].pc \notin Running
                   /\ \E t \in Sessions : sess[t].pc = "failed"
       IN  IF AlreadyProcessing
           THEN /\ sess' = [sess EXCEPT ![s].pc = "rejected", ![s].afterFailure = idle]
                /\ UNCHANGED <<state, page, lastScan, requests>>
           ELSE IF sq = <<>>
           THEN /\ state' = [state EXCEPT !.error = ERROR_MESSAGES.EMPTY_COMMAND]
                /\ sess' = [sess EXCEPT ![s].pc = "empty", ![s].afterFailure = idle]
                /\ UNCHANGED <<page, lastScan, requests>>
           ELSE RunLoop(s,
                        [state EXCEPT !.isProcessing = TRUE,
                                      !.error = Null,
                                      !.lastAction = NullAction],
                        [NoSession EXCEPT !.sanitizedQuery = sq,
                                          !.afterFailure = idle,
                                          !.heldHistory = state.history,
                                          !.currentHistory = rendered.history])

(* After executeAction has returned: the history append, the state update    *)
(* and the start of the inter-step delay (useNavigator.ts:147-157).          *)
AppendHistory(currentHistory, action) == Append(currentHistory, action)

CompleteStep(s, st, se) ==
    LET h == AppendHistory(se.currentHistory, se.action)
    IN  /\ state' = [st EXCEPT !.history = h]
        /\ sess' = [sess EXCEPT ![s] =
                      [se EXCEPT !.currentHistory = h,
                                 !.performed = Append(@, se.action),
                                 !.completed = @ + 1,
                                 !.appended = @ + 1,
                                 !.pc = "stepDelay"]]

(* the validation before executing, left out: skip and continue *)
ActionIsNeverInvalid(pg, action) == FALSE

(* the validation before executing *)
ActionIsInvalid(pg, action) == ~validateAction(pg, action)

(* What executeCommand does with a structurally valid planner action. *)
OnAction(s, data) ==
    LET st1 == [state EXCEPT !.lastAction = data]
        se1 == [sess[s] EXCEPT
                  !.action = data,
                  !.overdue = FALSE,
                  !.unresolved = data.action # "DONE"
                                 /\ (data.elementId = Undefined
                                      \/ querySelector(page, data.elementId) = 0),
                  !.validated = IF data.action # "DONE"
                                   /\ data.elementId # Undefined
                                   /\ querySelector(page, data.elementId) # 0
                                THEN @ + 1 ELSE @,
                  !.stub = @ /\ data.action = "CLICK"
                             /\ data.elementId # Undefined
                             /\ querySelector(page, data.elementId) # 0]
    IN  IF data.action = "DONE"
        THEN LET st2 == [st1 EXCEPT !.isProcessing = FALSE,
                                    !.history = Append(se1.currentHistory, data)]
             IN  /\ state' = st2
                 /\ sess' = [sess EXCEPT ![s] =
                               [Returned(se1, "done") EXCEPT !.final = FinalOf(st2)]]
        ELSE IF ActionIsInvalid(page, data)
        THEN /\ Throw(s, st1, se1, Error(ElementNotFoundMessage(data)))
        ELSE \* executeAction(action), up to its first await
             LET el == IF data.elementId = Undefined THEN 0
                       ELSE querySelector(page, data.elementId)
                 se2 == [se1 EXCEPT !.started = @ + 1, !.element = el]
             IN  IF el = 0
                 THEN CompleteStep(s, st1, se2)        \* warns and returns
                 ELSE /\ state' = st1
                      /\ sess' = [sess EXCEPT ![s] = [se2 EXCEPT !.pc = "settle"]]

(* The planner request fails before a response: the transport fails, or the  *)
(* REQUEST_TIMEOUT timer fires and controller.abort() rejects the fetch.     *)
FetchRejects(s) ==
    /\ sess[s].pc = "fetch"
    /\ Committed
    /\ Throw(s, state, [sess[s] EXCEPT !.plannerFailure = TRUE, !.stub = FALSE],
             Error("Failed to fetch"))
    /\ UNCHANGED <<rendered, caller, planner, parserVars, dispatcherVars, executorVars, calls, commands, page, lastScan, requests, pageChanges>>

RequestTimeout(s) ==
    /\ sess[s].pc = "fetch"
    /\ Committed
    /\ Throw(s, state,
             [sess[s] EXCEPT !.plannerFailure = TRUE, !.stub = FALSE,
                             !.overdue = TRUE, !.aborted = TRUE],
             Error("signal is aborted without reason"))
    /\ UNCHANGED <<rendered, caller, planner, parserVars, dispatcherVars, executorVars, calls, commands, page, lastScan, requests, pageChanges>>

(* fetch resolves with the response head: clearTimeout, then the status check *)
ResponseHead(s, ok) ==
    /\ sess[s].pc = "fetch"
    /\ Committed
    /\ IF ~ok
       THEN Throw(s, state, [sess[s] EXCEPT !.plannerFailure = TRUE, !.stub = FALSE],
                  Error("HTTP 500: Internal Server Error"))
       ELSE /\ sess' = [sess EXCEPT ![s].pc = "body"]
            /\ state' = state
    /\ UNCHANGED <<rendered, caller, planner, parserVars, dispatcherVars, executorVars, calls, commands, page, lastScan, requests, pageChanges>>

(* REQUEST_TIMEOUT elapses while response.json() is pending: the timer was   *)
(* cleared when the head arrived, so nothing runs.                           *)
TimeoutElapsesInBody(s) ==
    /\ sess[s].pc = "body"
    /\ ~sess[s].overdue
    /\ sess' = [sess EXCEPT ![s].overdue = TRUE]
    /\ UNCHANGED <<state, rendered, caller, planner, parserVars, dispatcherVars, executorVars, calls, commands, page, lastScan, requests, pageChanges>>

(* response.json() rejects: the body is not JSON *)
BodyRejects(s) ==
    /\ sess[s].pc = "body"
    /\ Committed
    /\ Throw(s, state, [sess[s] EXCEPT !.plannerFailure = TRUE, !.stub = FALSE],
             Error("Unexpected token < in JSON at position 0"))
    /\ UNCHANGED <<rendered, caller, planner, parserVars, dispatcherVars, executorVars, calls, commands, page, lastScan, requests, pageChanges>>

(* response.json() resolves with data *)
ResponseBody(s, data) ==
    /\ sess[s].pc = "body"
    /\ Committed
    /\ IF InvalidResponse(data)
       THEN /\ Throw(s, state,
                     [sess[s] EXCEPT !.plannerFailure = TRUE, !.stub = FALSE,
                                     !.malformed = TRUE],
                     Error("Invalid response format from backend"))
       ELSE OnAction(s, data)
    /\ UNCHANGED <<rendered, caller, planner, parserVars, dispatcherVars, executorVars, calls, commands, page, lastScan, requests, pageChanges>>

(* executeAction after its 300 ms settle delay: the interaction with the     *)
(* element resolved before the delay (click, or the value set and events).   *)
SettleElapsed(s) ==
    /\ sess[s].pc = "settle"
    /\ Committed
    /\ sess' = [sess EXCEPT ![s].pc = "acting", ![s].executed = @ + 1]
    /\ UNCHANGED <<state, rendered, caller, planner, parserVars, dispatcherVars, executorVars, calls, commands, page, lastScan, requests, pageChanges>>

(* executeAction returns after its last delay *)
ActionSettled(s) ==
    /\ sess[s].pc = "acting"
    /\ Committed
    /\ CompleteStep(s, state, sess[s])
    /\ UNCHANGED <<rendered, caller, planner, parserVars, dispatcherVars, executorVars, calls, commands, page, lastScan, requests, pageChanges>>

(* the inter-step delay elapses: back to the loop head *)
StepDelayElapsed(s) ==
    /\ sess[s].pc = "stepDelay"
    /\ Committed
    /\ RunLoop(s, state, sess[s])
    /\ UNCHANGED <<rendered, caller, planner, parserVars, dispatcherVars, executorVars, calls, commands, pageChanges>>

(* React re-renders the component: the callbacks are re-created over the     *)
(* current state.  A re-render scheduled by setState is committed before the *)
(* next timer or network callback runs.                                      *)
Render ==
    /\ ~Committed
    /\ rendered' = RenderOf(state)
    /\ UNCHANGED <<state, sess, caller, planner, parserVars, dispatcherVars, executorVars, calls, commands, page, lastScan, requests, pageChanges>>

(* the updater clearHistory passes to setState (lines 180-185) *)
ClearHistoryUpdate(prev) ==
    [prev EXCEPT !.history = <<>>, !.lastAction = NullAction, !.error = Null]

(* the updater resetError passes to setState (line 192) *)
ResetErrorUpdate(prev) == [prev EXCEPT !.error = Null]

clearHistory ==
    /\ state' = ClearHistoryUpdate(state)
    /\ MayCall
    /\ calls' = calls + 1
    /\ sess' = [s \in Sessions |->
                  IF sess[s].pc \in Running
                  THEN [sess[s] EXCEPT !.discarded = @ \/ sess[s].pc \in {"fetch", "body"},
                                       !.stale = Len(sess[s].currentHistory)]
                  ELSE sess[s]]
    /\ UNCHANGED <<rendered, caller, planner, parserVars, dispatcherVars, executorVars, commands, page, lastScan, requests, pageChanges>>

resetError ==
    /\ state' = ResetErrorUpdate(state)
    /\ MayCall
    /\ calls' = calls + 1
    /\ UNCHANGED <<rendered, sess, caller, planner, parserVars, dispatcherVars, executorVars, commands, page, lastScan, requests, pageChanges>>

(* The application changes the page: an element is mounted or unmounted (a   *)
(* mounted element is a new node, without data-agent-id), shown or hidden,   *)
(* enabled or disabled.                                                      *)
PageChange(e, what) ==
    /\ pageChanges < MaxPageChanges
    /\ pageChanges' = pageChanges + 1
    /\ page' = [page EXCEPT ![e] =
                  CASE what = "mount"   -> IF page[e].inDom THEN FreshElement
                                           ELSE [FreshElement EXCEPT !.inDom = TRUE]
                    [] what = "show"    -> [@ EXCEPT !.visible = ~@]
                    [] what = "disable" -> [@ EXCEPT !.disabled = ~@]]
    /\ what # "mount" => page[e].inDom
    /\ UNCHANGED <<state, rendered, sess, caller, planner, parserVars, dispatcherVars, executorVars, calls, commands, lastScan, requests>>

(* The scenarios explored: callers through the component or direct, with any *)
(* planner; the stub planner called through the component; and a direct      *)
(* caller that makes one more call, with the terse planner.                  *)
Scenarios == { <<"ui", "any">>, <<"direct", "any">>, <<"ui", "stub">>, <<"direct", "terse">> }

(* A Command; confidence is held in tenths (10 for 1.0, 9 for 0.9); the null *)
(* command of a ParsedCommand is NullCommand.                               *)
Command(type, action, parameters, confidence) ==
    [type |-> type, action |-> action, parameters |-> parameters, confidence |-> confidence]

NoParameters == [none |-> TRUE]

NullCommand == Command("null", "null", NoParameters, 0)

(* the value of parsed before parse has been called *)
NoResult == [command |-> NullCommand, originalText |-> "", suggestions |-> <<>>]

(* StoreContext: the initial state of the store (priceRange, minRating and    *)
(* products are never touched by the assistant and are left out)             *)
initialState == [cart |-> << >>, searchQuery |-> "", selectedCategory |-> "All"]

(* a Message of the assistant panel *)
Message(type, content, suggestions) ==
    [type |-> type, content |-> content, suggestions |-> suggestions]

greeting ==
    "Hello! I'm your AI shopping assistant. I can help you navigate the store, search for products, manage your cart, and more. Try saying \"go to products\" or \"search for shoes\"."

(* before handleCommand has been called *)
NoDispatch == [command |-> NullCommand, log |-> << >>, threw |-> FALSE, escaped |-> FALSE]

(* executeType has not been called *)
NoTyping ==
    [pc |-> "idle",
     element |-> [tag |-> "none", type |-> "", placeholder |-> "", form |-> FALSE,
                  isContentEditable |-> FALSE, value |-> ""],
     text |-> "", log |-> << >>]

(* executeAction has not been called *)
NoExec ==
    [pc |-> "idle", action |-> NullAction, element |-> 0, fromLoop |-> FALSE, calls |-> 0,
     highlights |-> 0, log |-> << >>, escaped |-> FALSE,
     \* the elements of the document, as executeType sees them
     document |-> << >>,
     \* bookkeeping for the properties
     effects |-> << >>,       \* per history write of the step: what the call did to the page
     initialStyles |-> << >>] \* the inline styles before the first highlight

(* element.style: the four properties highlightElement writes *)
Style(outline, boxShadow, zIndex, transition) ==
    [outline |-> outline, boxShadow |-> boxShadow, zIndex |-> zIndex,
     transition |-> transition]

NoStyle == Style("", "", "", "")

Init ==
    /\ utterance = ""
    /\ typing = NoTyping
    /\ exec = NoExec
    /\ styles = [e \in Elements |-> NoStyle]
    /\ timers = << >>
    /\ location = "/"
    /\ store = initialState
    /\ messages = << Message("assistant", greeting, << >>) >>
    /\ isProcessing = FALSE
    /\ last = NoDispatch
    /\ parsed = NoResult
    /\ state = InitialState
    /\ rendered = RenderOf(InitialState)
    /\ sess = [s \in Sessions |-> NoSession]
    /\ \E sc \in Scenarios : caller = sc[1] /\ planner = sc[2]
    /\ calls = 0
    /\ commands = 0
    /\ page \in [Elements -> {FreshElement, [FreshElement EXCEPT !.inDom = TRUE]}]
    /\ lastScan = <<>>
    /\ requests = 0
    /\ pageChanges = 0

Next ==
    \/ \E q \in Queries : ExecuteCommand(q)
    \/ \E s \in Sessions : FetchRejects(s)
    \/ \E s \in Sessions : RequestTimeout(s)
    \/ \E s \in Sessions, ok \in BOOLEAN : ResponseHead(s, ok)
    \/ \E s \in Sessions : TimeoutElapsesInBody(s)
    \/ \E s \in Sessions : BodyRejects(s)
    \/ \E s \in Sessions, data \in PlannerReplies : ResponseBody(s, data)
    \/ \E s \in Sessions : SettleElapsed(s)
    \/ \E s \in Sessions : ActionSettled(s)
    \/ \E s \in Sessions : StepDelayElapsed(s)
    \/ Render
    \/ clearHistory
    \/ resetError
    \/ \E e \in Elements, what \in {"mount", "show", "disable"} : PageChange(e, what)

Spec == Init /\ [][Next]_vars

(* Scheduling: every pending planner call eventually returns or fails, every *)
(* pending delay elapses, and React commits every scheduled re-render.       *)
Fairness ==
    /\ WF_vars(Render)
    /\ \A s \in Sessions :
          /\ WF_vars(FetchRejects(s) \/ RequestTimeout(s)
                        \/ \E ok \in BOOLEAN : ResponseHead(s, ok))
          /\ WF_vars(BodyRejects(s) \/ \E data \in PlannerReplies : ResponseBody(s, data))
          /\ WF_vars(SettleElapsed(s))
          /\ WF_vars(ActionSettled(s))
          /\ WF_vars(StepDelayElapsed(s))

(* Termination is examined for calls made through the component, with any   *)
(* planner and with the stub planner.                                        *)
LiveScenarios == { <<"ui", "any">>, <<"ui", "stub">> }

InitLive == Init /\ <<caller, planner>> \in LiveScenarios

FairSpec == InitLive /\ [][Next]_vars /\ Fairness

----------------------------------------------------------------------------
(* The rule-based command parser (src/lib/commandParser.ts).  Texts are      *)
(* strings; the characters of the inputs are letters and spaces.             *)

UpperCase == "ABCDEFGHIJKLMNOPQRSTUVWXYZ"
LowerCase == "abcdefghijklmnopqrstuvwxyz"

CharAt(s, i) == SubSeq(s, i, i)

toLowerCaseChar(c) ==
    IF \E i \in 1..Len(UpperCase) : CharAt(UpperCase, i) = c
    THEN CharAt(LowerCase, CHOOSE i \in 1..Len(UpperCase) : CharAt(UpperCase, i) = c)
    ELSE c

RECURSIVE toLowerCase(_)
toLowerCase(s) ==
    IF Len(s) = 0 THEN ""
    ELSE toLowerCaseChar(CharAt(s, 1)) \o toLowerCase(SubSeq(s, 2, Len(s)))

(* String.prototype.trim *)
RECURSIVE trim(_)
trim(s) ==
    IF Len(s) > 0 /\ CharAt(s, 1) = " " THEN trim(SubSeq(s, 2, Len(s)))
    ELSE IF Len(s) > 0 /\ CharAt(s, Len(s)) = " " THEN trim(SubSeq(s, 1, Len(s) - 1))
    ELSE s

Least(S) == CHOOSE x \in S : \A y \in S : x <= y

(* the positions at which k occurs in s *)
Occurrences(s, k) ==
    {i \in 1..(Len(s) - Len(k) + 1) : SubSeq(s, i, i + Len(k) - 1) = k}

(* String.prototype.includes *)
includes(s, k) == Occurrences(s, k) # {}

(* s.replace(k, ''): the first occurrence of k removed *)
remove(s, k) ==
    IF ~includes(s, k) THEN s
    ELSE LET i == Least(Occurrences(s, k))
         IN  SubSeq(s, 1, i - 1) \o SubSeq(s, i + Len(k), Len(s))

navigationKeywords ==
    <<"go to", "navigate to", "take me to", "show me", "open", "visit", "browse">>

searchKeywords ==
    <<"search for", "find", "look for", "find me", "search", "look up", "show me">>

categoryKeywords == <<"show", "filter by", "category", "in", "from", "type">>

cartKeywords == <<"add to cart", "buy", "purchase", "order", "get", "add", "cart">>

helpKeywords == <<"help", "what can you do", "how do i", "how to", "guide", "assist">>

(* Object.entries(locations), in insertion order *)
locations ==
    << [location |-> "home",          path |-> "/"],
       [location |-> "main page",     path |-> "/"],
       [location |-> "start",         path |-> "/"],
       [location |-> "products",      path |-> "/products"],
       [location |-> "shop",          path |-> "/products"],
       [location |-> "store",         path |-> "/products"],
       [location |-> "catalog",       path |-> "/products"],
       [location |-> "cart",          path |-> "/cart"],
       [location |-> "shopping cart", path |-> "/cart"],
       [location |-> "basket",        path |-> "/cart"],
       [location |-> "checkout",      path |-> "/checkout"],
       [location |-> "payment",       path |-> "/checkout"],
       [location |-> "order",         path |-> "/checkout"] >>

categories ==
    <<"electronics", "clothing", "books", "home", "sports", "beauty", "toys", "automotive">>

exactMatches ==
    << [phrase |-> "help",            command |-> Command("help", "help", NoParameters, 10)],
       [phrase |-> "what can you do", command |-> Command("help", "help", NoParameters, 10)],
       [phrase |-> "go home",
        command |-> Command("navigation", "navigate", [path |-> "/"], 10)],
       [phrase |-> "show cart",       command |-> Command("cart", "view", NoParameters, 10)],
       [phrase |-> "view cart",       command |-> Command("cart", "view", NoParameters, 10)],
       [phrase |-> "clear cart",      command |-> Command("cart", "clear", NoParameters, 10)],
       [phrase |-> "empty cart",      command |-> Command("cart", "clear", NoParameters, 10)] >>

(* exactMatches is an object literal, so a lookup also finds the lower-case   *)
(* keys it inherits from Object.prototype; their values are truthy and have  *)
(* none of the fields of a Command.                                          *)
inheritedKeys == {"constructor", "__proto__"}

InheritedValue == Command("undefined", "undefined", NoParameters, -1)

(* a lookup that finds no phrase *)
ExactNeverMatches(inp) == NullCommand

findExactMatch(inp) ==
    IF \E i \in DOMAIN exactMatches : exactMatches[i].phrase = inp
    THEN exactMatches[CHOOSE i \in DOMAIN exactMatches : exactMatches[i].phrase = inp].command
    ELSE IF inp \in inheritedKeys THEN InheritedValue
    ELSE NullCommand

parseNavigation(inp) ==
    LET found == { h \in (DOMAIN navigationKeywords) \X (DOMAIN locations) :
                     /\ includes(inp, navigationKeywords[h[1]])
                     /\ includes(trim(remove(inp, navigationKeywords[h[1]])),
                                 locations[h[2]].location) }
    IN  IF found = {} THEN NullCommand
        ELSE LET k == Least({h[1] : h \in found})
                 l == Least({h[2] : h \in {g \in found : g[1] = k}})
             IN  Command("navigation", "navigate", [path |-> locations[l].path], 9)

parseSearch(inp) ==
    LET found == { k \in DOMAIN searchKeywords :
                     /\ includes(inp, searchKeywords[k])
                     /\ Len(trim(remove(inp, searchKeywords[k]))) > 1 }
    IN  IF found = {} THEN NullCommand
        ELSE Command("search", "search",
                     [query |-> trim(remove(inp, searchKeywords[Least(found)]))], 9)

parseCategory(inp) ==
    LET found == { c \in DOMAIN categories : includes(inp, categories[c]) }
    IN  IF found = {} \/ ~\E k \in DOMAIN categoryKeywords : includes(inp, categoryKeywords[k])
        THEN NullCommand
        ELSE Command("category", "filter", [category |-> categories[Least(found)]], 8)

parseCart(inp) ==
    LET found == { k \in DOMAIN cartKeywords :
                     /\ includes(inp, cartKeywords[k])
                     /\ Len(trim(remove(inp, cartKeywords[k]))) > 1 }
    IN  IF found = {} THEN NullCommand
        ELSE Command("cart", "add",
                     [product |-> trim(remove(inp, cartKeywords[Least(found)]))], 8)

parseHelp(inp) ==
    IF \E k \in DOMAIN helpKeywords : includes(inp, helpKeywords[k])
    THEN Command("help", "help", NoParameters, 9)
    ELSE NullCommand

(* the three patterns: alternatives followed by \s+(.+) *)
productPatterns ==
    << {"show", "display", "view", "see"},
       {"tell me about", "what is", "describe"},
       {"price of", "cost of"} >>

(* input.match(pattern): the leftmost position where an alternative is       *)
(* followed by white space and at least one more character; the result is    *)
(* the captured group (.+), "" when the pattern does not match.  The input   *)
(* is trimmed, so the text after the white space is never empty.             *)
matchGroup(inp, words) ==
    LET At(i, w) == /\ i + Len(w) <= Len(inp)
                    /\ SubSeq(inp, i, i + Len(w) - 1) = w
                    /\ CharAt(inp, i + Len(w)) = " "
                    /\ Len(trim(SubSeq(inp, i + Len(w), Len(inp)))) > 0
        at == { i \in 1..Len(inp) : \E w \in words : At(i, w) }
    IN  IF at = {} THEN ""
        ELSE LET i == Least(at)
                 w == CHOOSE v \in words : At(i, v)
             IN  trim(SubSeq(inp, i + Len(w), Len(inp)))

parseProduct(inp) ==
    LET found == { p \in DOMAIN productPatterns : Len(matchGroup(inp, productPatterns[p])) > 1 }
    IN  IF found = {} THEN NullCommand
        ELSE Command("product", "info",
                     [product |-> matchGroup(inp, productPatterns[Least(found)])], 7)

starterHints ==
    << "Try saying \"help\" to see what I can do",
       "Say \"go to products\" to browse the store",
       "Say \"search for shoes\" to find products" >>

navigationExamples ==
    << "Try \"go to products\" or \"go to cart\"",
       "Say \"go to checkout\" to complete your order" >>

searchExamples ==
    << "Try \"search for red shoes\" or \"find dresses\"",
       "Say \"search for electronics\" to browse categories" >>

cartExamples ==
    << "Try \"add to cart\" or \"view cart\"",
       "Say \"clear cart\" to remove all items" >>

fallbackExamples ==
    << "Say \"help\" to see all available commands",
       "Try \"go to products\" to start shopping",
       "Say \"search for [product name]\" to find items" >>

(* no suggestion at all *)
NoSuggestions(inp) == << >>

(* suggestions chosen without the test on the length of the input *)
SuggestionsIgnoringLength(inp) ==
    IF includes(inp, "go") \/ includes(inp, "navigate") THEN navigationExamples
    ELSE IF includes(inp, "find") \/ includes(inp, "search") THEN searchExamples
    ELSE IF includes(inp, "cart") \/ includes(inp, "buy") THEN cartExamples
    ELSE fallbackExamples

generateSuggestions(inp) ==
    IF Len(inp) < 3 THEN starterHints
    ELSE IF includes(inp, "go") \/ includes(inp, "navigate") THEN navigationExamples
    ELSE IF includes(inp, "find") \/ includes(inp, "search") THEN searchExamples
    ELSE IF includes(inp, "cart") \/ includes(inp, "buy") THEN cartExamples
    ELSE fallbackExamples

(* the rules with search tried before navigation *)
SearchBeforeNavigation(lowerInput) ==
    << findExactMatch(lowerInput), parseSearch(lowerInput), parseNavigation(lowerInput),
       parseCategory(lowerInput), parseCart(lowerInput), parseHelp(lowerInput),
       parseProduct(lowerInput) >>

(* the rules, in the order parse tries them *)
Rules(lowerInput) ==
    << findExactMatch(lowerInput), parseNavigation(lowerInput), parseSearch(lowerInput),
       parseCategory(lowerInput), parseCart(lowerInput), parseHelp(lowerInput),
       parseProduct(lowerInput) >>

parse(inp) ==
    LET lowerInput == trim(toLowerCase(inp))
        rules      == Rules(lowerInput)
        matched    == { r \in DOMAIN rules : rules[r] # NullCommand }
    IN  IF matched # {}
        THEN [command |-> rules[Least(matched)], originalText |-> inp, suggestions |-> <<>>]
        ELSE [command |-> NullCommand, originalText |-> inp,
              suggestions |-> generateSuggestions(lowerInput)]

(* Inputs of parse *)
Politeness == {"", "please "}

NavigationInputs ==
    { navigationKeywords[k] \o " " \o locations[l].location :
        k \in DOMAIN navigationKeywords, l \in DOMAIN locations }

SearchInputs ==
    { pre \o searchKeywords[k] \o " " \o t :
        pre \in Politeness, k \in DOMAIN searchKeywords,
        t \in {"Red Shoes", "shoes", "TV", "x"} }

OtherInputs ==
    { exactMatches[i].phrase : i \in DOMAIN exactMatches }
      \cup { "Help", " View Cart ", "Go To Shopping Cart", "SHOW ME BASKET", "Search For Shoes",
             "show electronics category", "filter by clothing", "books", "add to cart", "please open the store",
             "buy shoes", "add x", "how do i use this", "display laptop", "price of tv",
             "see x", "what is a kettle", "", "hi", "yo there", "going", "finding", "carts",
             "go", "cart", "buy x", "find x", "navigate", "asdkjhasd", "constructor" }

(* the inputs given to the assistant panel *)
DispatcherInputs ==
    { "go home", "open cart", "find tv", "in books", "buy tv", "clear cart", "view cart",
      "help", "see tv", "hi", "constructor" }

(* the example commands of the user documentation *)
DocumentedExamples ==
    { "Go to products", "Take me to cart", "Show me home", "Navigate to checkout",
      "Search for shoes", "Find red dresses", "Look for electronics",
      "Show electronics category", "Filter by clothing", "View cart", "Show my basket",
      "Clear cart", "Empty cart", "Help", "What can you do?" }

ParserInputs ==
    NavigationInputs \cup SearchInputs \cup OtherInputs \cup DispatcherInputs
      \cup DocumentedExamples

(* parse(i) for every input i of the model, computed once *)
parseResults == [i \in ParserInputs |-> parse(i)]

(* CommandParser.parse(input) *)
Parse(i) ==
    /\ utterance' = i
    /\ parsed' = parseResults[i]
    /\ UNCHANGED <<navigatorVars, dispatcherVars, executorVars>>

ParserInit ==
    /\ Init
    /\ caller = "ui" /\ planner = "any"
    /\ page = [e \in Elements |-> FreshElement]

ParserNext == \E i \in ParserInputs : Parse(i)

ParserSpec == ParserInit /\ [][ParserNext]_vars

----------------------------------------------------------------------------
(* The command dispatcher: AIAgent.tsx and the store reducer *)

MaxCommands == 2
MaxQuantity == 2

Products == {"p1"}

(* the UPDATE_CART_QUANTITY case without the filter of line 89 *)
UpdateKeepsEveryLine(cart, payload) ==
    [i \in DOMAIN cart |->
        IF cart[i].product = payload.id
        THEN [cart[i] EXCEPT !.quantity = payload.quantity] ELSE cart[i]]

(* the cart of the UPDATE_CART_QUANTITY case (lines 85-89): the quantity is  *)
(* set on the line of the product, then the lines without a positive         *)
(* quantity are dropped                                                      *)
updateCartQuantity(cart, payload) ==
    SelectSeq([i \in DOMAIN cart |->
                  IF cart[i].product = payload.id
                  THEN [cart[i] EXCEPT !.quantity = payload.quantity] ELSE cart[i]],
              LAMBDA item : item.quantity > 0)

(* storeReducer(state, action), for the actions used here *)
storeReducer(st, action) ==
    IF action.type = "SET_SEARCH_QUERY" THEN [st EXCEPT !.searchQuery = action.payload]
    ELSE IF action.type = "SET_CATEGORY" THEN [st EXCEPT !.selectedCategory = action.payload]
    ELSE IF action.type = "ADD_TO_CART"
    THEN IF \E i \in DOMAIN st.cart : st.cart[i].product = action.payload
         THEN [st EXCEPT !.cart = [i \in DOMAIN st.cart |->
                                      IF st.cart[i].product = action.payload
                                      THEN [st.cart[i] EXCEPT !.quantity = @ + 1]
                                      ELSE st.cart[i]]]
         ELSE [st EXCEPT !.cart = Append(@, [product |-> action.payload, quantity |-> 1])]
    ELSE IF action.type = "REMOVE_FROM_CART"
    THEN [st EXCEPT !.cart = SelectSeq(@, LAMBDA item : item.product # action.payload)]
    ELSE IF action.type = "UPDATE_CART_QUANTITY"
    THEN [st EXCEPT !.cart = updateCartQuantity(@, action.payload)]
    ELSE IF action.type = "CLEAR_CART" THEN [st EXCEPT !.cart = << >>]
    ELSE st

(* The calls executeCommand makes, in order.  kind is the collaborator       *)
(* called: navigate, dispatch, addMessage, speak or setIsProcessing.         *)
Call(kind, type, payload) == [kind |-> kind, type |-> type, payload |-> payload]

navigate(path)         == Call("navigate", "", path)
dispatch(type, payload) == Call("dispatch", type, payload)
addMessage(content)    == Call("addMessage", "assistant", content)
speak(text)            == Call("speak", "", text)
setIsProcessing(b)     == Call("setIsProcessing", "", IF b THEN "true" ELSE "false")

(* command.parameters?.<key>, "" when absent *)
Parameter(command, key) ==
    IF key \in DOMAIN command.parameters THEN command.parameters[key] ELSE ""

(* path === '/' ? 'home' : path.slice(1) *)
placeName(path) == IF path = "/" THEN "home" ELSE SubSeq(path, 2, Len(path))

navigationCase(command) ==
    LET path == Parameter(command, "path")
    IN  IF command.action = "navigate" /\ path # ""
        THEN << navigate(path),
                addMessage("Navigating to " \o placeName(path)),
                speak("Taking you to " \o placeName(path)) >>
        ELSE << >>

(* the search case without the route change *)
SearchWithoutRoute(command) ==
    LET query == Parameter(command, "query")
    IN  IF command.action = "search" /\ query # ""
        THEN << dispatch("SET_SEARCH_QUERY", query),
                addMessage("Searching for \"" \o query \o "\""),
                speak("Searching for " \o query) >>
        ELSE << >>

searchCase(command) ==
    LET query == Parameter(command, "query")
    IN  IF command.action = "search" /\ query # ""
        THEN << dispatch("SET_SEARCH_QUERY", query),
                navigate("/products"),
                addMessage("Searching for \"" \o query \o "\""),
                speak("Searching for " \o query) >>
        ELSE << >>

categoryCase(command) ==
    LET category == Parameter(command, "category")
    IN  IF command.action = "filter" /\ category # ""
        THEN << dispatch("SET_CATEGORY", category),
                navigate("/products"),
                addMessage("Filtering by category: " \o category),
                speak("Showing products in the " \o category \o " category") >>
        ELSE << >>

(* the cart case with an add that puts the product into the cart *)
CartCaseAddsItem(command) ==
    IF command.action = "add"
    THEN << dispatch("ADD_TO_CART", Parameter(command, "product")),
            addMessage("I'll help you add \"" \o Parameter(command, "product")
                         \o "\" to your cart. Please navigate to the product page first."),
            speak("I'll help you add " \o Parameter(command, "product")
                    \o " to your cart. Please navigate to the product page first.") >>
    ELSE IF command.action = "clear"
    THEN << dispatch("CLEAR_CART", ""),
            addMessage("Your cart has been cleared."),
            speak("Your cart has been cleared.") >>
    ELSE IF command.action = "view"
    THEN << navigate("/cart"),
            addMessage("Taking you to your cart."),
            speak("Taking you to your cart.") >>
    ELSE << >>

cartCase(command) ==
    IF command.action = "add"
    THEN << addMessage("I'll help you add \"" \o Parameter(command, "product")
                         \o "\" to your cart. Please navigate to the product page first."),
            speak("I'll help you add " \o Parameter(command, "product")
                    \o " to your cart. Please navigate to the product page first.") >>
    ELSE IF command.action = "clear"
    THEN << dispatch("CLEAR_CART", ""),
            addMessage("Your cart has been cleared."),
            speak("Your cart has been cleared.") >>
    ELSE IF command.action = "view"
    THEN << navigate("/cart"),
            addMessage("Taking you to your cart."),
            speak("Taking you to your cart.") >>
    ELSE << >>

productCase(command) ==
    LET product == Parameter(command, "product")
    IN  IF command.action = "info" /\ product # ""
        THEN << addMessage("I can help you find information about \"" \o product
                             \o "\". Let me search for it."),
                dispatch("SET_SEARCH_QUERY", product),
                navigate("/products"),
                speak("I'll search for " \o product \o " for you.") >>
        ELSE << >>

(* the help text, its line breaks and bullets written as " * " *)
helpText ==
    "I can help you with: * Navigation: \"go to products\", \"take me to cart\" * Search: \"search for shoes\", \"find red dresses\" * Categories: \"show electronics category\" * Cart: \"view cart\", \"clear cart\" * General: \"what can you do\", \"help\""

helpCase(command) ==
    << addMessage(helpText),
       speak("I can help you navigate, search, and manage your cart. Just ask!") >>

(* switch (command.type): the calls of the matching case *)
Cases(command) ==
    IF command.type = "navigation" THEN navigationCase(command)
    ELSE IF command.type = "search" THEN searchCase(command)
    ELSE IF command.type = "category" THEN categoryCase(command)
    ELSE IF command.type = "cart" THEN cartCase(command)
    ELSE IF command.type = "product" THEN productCase(command)
    ELSE IF command.type = "help" THEN helpCase(command)
    ELSE << >>

(* which collaborator throws when it is called *)
Faults == {"none", "navigate", "dispatch"}

(* the calls of the try block that are made when the collaborator fault      *)
(* throws: those before its first call                                       *)
Attempted(calls_, fault) ==
    LET bad == { i \in DOMAIN calls_ : calls_[i].kind = fault }
    IN  IF bad = {} THEN calls_ ELSE SubSeq(calls_, 1, Least(bad) - 1)

Throws(calls_, fault) == \E i \in DOMAIN calls_ : calls_[i].kind = fault

(* a handler that lets the exception through *)
CatchRethrows(threw) == [log |-> << >>, escaped |-> threw]

(* catch (error) { ... }: console.error, the generic acknowledgment *)
DispatchCatch(threw) ==
    [log |-> IF threw
             THEN << addMessage("Sorry, I encountered an error. Please try again."),
                     speak("Sorry, I encountered an error. Please try again.") >>
             ELSE << >>,
     escaped |-> FALSE]

(* executeCommand(command): the calls made, and whether an exception leaves  *)
(* the function                                                              *)
DispatchCommand(command, fault) ==
    LET body   == Cases(command)
        threw  == Throws(body, fault)
        caught == DispatchCatch(threw)
    IN  [command |-> command,
         log     |-> << setIsProcessing(TRUE) >> \o Attempted(body, fault) \o caught.log
                       \o << setIsProcessing(FALSE) >>,
         threw   |-> threw,
         escaped |-> caught.escaped]

(* handleCommand(input), with parsedCommand = CommandParser.parse(input) *)
handleCommand(parsedCommand, inp, fault) ==
        IF parsedCommand.command # NullCommand
        THEN DispatchCommand(parsedCommand.command, fault)
        ELSE [command |-> NullCommand,
              log     |-> << [addMessage("I didn't understand \"" \o inp
                                           \o "\". Here are some suggestions:")
                                EXCEPT !.type = "suggestions"],
                             speak("I didn't understand that. Try saying help to see what I can do.") >>,
              threw   |-> FALSE,
              escaped |-> FALSE]

(* the calls of one kind in a log *)
Only(log, kind) == SelectSeq(log, LAMBDA c : c.kind = kind)

RECURSIVE Reduce(_, _)
Reduce(st, actions) ==
    IF actions = << >> THEN st
    ELSE Reduce(storeReducer(st, [type |-> Head(actions).type, payload |-> Head(actions).payload]),
                Tail(actions))

(* the entry handler adds the user's message, then handleCommand(inp) makes   *)
(* the calls of did.log                                                      *)
Apply(did, parsedCommand, inp) ==
    LET routes == Only(did.log, "navigate")
        flags  == Only(did.log, "setIsProcessing")
        added  == Only(did.log, "addMessage")
    IN  /\ location' = IF routes = << >> THEN location ELSE routes[Len(routes)].payload
        /\ store' = Reduce(store, Only(did.log, "dispatch"))
        /\ messages' = Append(messages, Message("user", inp, << >>)) \o
                         [i \in DOMAIN added |->
                            Message("assistant", added[i].payload,
                                    IF added[i].type = "suggestions"
                                    THEN parsedCommand.suggestions ELSE << >>)]
        /\ isProcessing' = IF flags = << >> THEN isProcessing
                           ELSE flags[Len(flags)].payload = "true"
        /\ last' = did
        /\ utterance' = inp
        /\ parsed' = parsedCommand

UserMessages == Len(SelectSeq(messages, LAMBDA m : m.type = "user"))

(* handleVoiceCommand(transcript) *)
HandleVoiceCommand(transcript) ==
    /\ UserMessages < MaxCommands
    /\ LET parsedCommand == parseResults[transcript]
       IN  \E fault \in Faults :
              Apply(handleCommand(parsedCommand, transcript, fault), parsedCommand, transcript)
    /\ UNCHANGED <<navigatorVars, executorVars>>

(* handleTextSubmit(e) with inputText typed into the panel *)
HandleTextSubmit(inputText) ==
    /\ UserMessages < MaxCommands
    /\ trim(inputText) # ""
    /\ LET parsedCommand == parseResults[inputText]
       IN  \E fault \in Faults :
              Apply(handleCommand(parsedCommand, inputText, fault), parsedCommand, inputText)
    /\ UNCHANGED <<navigatorVars, executorVars>>

(* a product page adds the product to the cart *)
AddToCart(product) ==
    /\ \A i \in DOMAIN store.cart :
          store.cart[i].product = product => store.cart[i].quantity < MaxQuantity
    /\ store' = storeReducer(store, [type |-> "ADD_TO_CART", payload |-> product])
    /\ UNCHANGED <<navigatorVars, parserVars, executorVars, location, messages, isProcessing, last>>

DispatcherInit == ParserInit

DispatcherNext ==
    \/ \E t \in DispatcherInputs \cup {""} : HandleVoiceCommand(t)
    \/ \E t \in DispatcherInputs \cup {""} : HandleTextSubmit(t)
    \/ \E p \in Products : AddToCart(p)

DispatcherSpec == DispatcherInit /\ [][DispatcherNext]_vars

----------------------------------------------------------------------------
(* The element scanner on arbitrary pages *)

(* the elements a page can hold: controls and other matched elements, shown  *)
(* or hidden, with or without the disabled marks, tagged by an earlier scan  *)
(* or not                                                                    *)
PageElements ==
    [inDom : BOOLEAN, visible : BOOLEAN, kind : {"control", "other"}, disabled : BOOLEAN,
     ariaDisabled : BOOLEAN, agentId : {Undefined, 0}]

(* collectInteractiveElements() *)
Scan ==
    LET scan == collectInteractiveElements(page)
    IN  /\ lastScan' = scan.snapshot
        /\ page' = scan.page
        /\ UNCHANGED <<state, rendered, sess, caller, planner, calls, commands, requests,
                       pageChanges, parserVars, dispatcherVars, executorVars>>

ScannerInit ==
    /\ utterance = ""
    /\ typing = NoTyping
    /\ exec = NoExec
    /\ styles = [e \in Elements |-> NoStyle]
    /\ timers = << >>
    /\ parsed = NoResult
    /\ location = "/"
    /\ store = initialState
    /\ messages = << Message("assistant", greeting, << >>) >>
    /\ isProcessing = FALSE
    /\ last = NoDispatch
    /\ state = InitialState
    /\ rendered = RenderOf(InitialState)
    /\ sess = [s \in Sessions |-> NoSession]
    /\ caller = "ui" /\ planner = "any"
    /\ calls = 0
    /\ commands = 0
    /\ page \in [Elements -> PageElements]
    /\ lastScan = << >>
    /\ requests = 0
    /\ pageChanges = 0

ScannerNext == Scan

ScannerSpec == ScannerInit /\ [][ScannerNext]_vars

----------------------------------------------------------------------------
(* The executor's TYPE action: executeType(element, text) *)

(* The targets: an <input> of type text or search, a <textarea>, or another  *)
(* element that may be contenteditable.  form tells whether                  *)
(* element.closest('form') finds a form.                                     *)
Target(tag, type, placeholder, form, editable, value) ==
    [tag |-> tag, type |-> type, placeholder |-> placeholder, form |-> form,
     isContentEditable |-> editable, value |-> value]

Targets ==
    { Target("input", t, p, f, FALSE, v) :
        t \in {"text", "search", "email"}, p \in {"", "Search products"}, f \in BOOLEAN,
        v \in {"", "old"} }
      \cup { Target("textarea", "textarea", p, f, FALSE, "") :
               p \in {"", "Search notes"}, f \in BOOLEAN }
      \cup { Target("div", "", "", FALSE, e, "") : e \in BOOLEAN }

Texts == {"tv", "red shoes", "TV", ""}

(* what executeType does to the page, in order *)
Step(op, type, on, arg, cancelable) ==
    [op |-> op, type |-> type, on |-> on, arg |-> arg, cancelable |-> cancelable]

focus                 == Step("focus", "", "element", "", FALSE)
setValue(v)           == Step("value", "", "element", v, FALSE)
setInnerText(v)       == Step("innerText", "", "element", v, FALSE)
dispatchEvent(on, t)  == Step("event", t, on, "", FALSE)
wait(ms)              == Step("wait", "", "", ms, FALSE)
enterKeydown          == Step("event", "keydown", "element", "Enter", TRUE)
submitEvent           == Step("event", "submit", "form", "", TRUE)

(* Object.getOwnPropertyDescriptor(HTMLInputElement.prototype, 'value')?.set *)
(* is defined in every browser                                               *)
valueSetter == TRUE

(* valueSetter.call(element, v) is the setter of HTMLInputElement; called on *)
(* an element that is not an <input> it throws a TypeError                   *)
SetterThrows(el) == el.tag # "input"

(* element.type === 'search' || element.placeholder?.toLowerCase().includes('search') *)
SearchLike(el) == el.type = "search" \/ includes(toLowerCase(el.placeholder), "search")

(* the two events with the submit event dispatched before the Enter key *)
SubmitBeforeEnter(el) == << submitEvent, enterKeydown >>

(* lines 123-133: the Enter keydown on the element, then the submit event on *)
(* the form                                                                  *)
Submission(el) == << enterKeydown, submitEvent >>

(* lines 116-121: after the value is set, a search-like element inside a     *)
(* form makes the function wait 200 ms; otherwise it returns                 *)
AfterValueSet(t) ==
    IF SearchLike(t.element) /\ t.element.form
    THEN [t EXCEPT !.pc = "submitting", !.log = @ \o << wait("200") >>]
    ELSE [t EXCEPT !.pc = "done"]

(* executeType(element, text) up to its first await *)
executeType(el, text) ==
         IF el.tag \in {"input", "textarea"}
         THEN IF valueSetter
              THEN IF SetterThrows(el)
                   THEN [pc |-> "threw", element |-> el, text |-> text, log |-> << focus >>]
                   ELSE [pc |-> "cleared", element |-> [el EXCEPT !.value = ""], text |-> text,
                         log |-> << focus, setValue(""), dispatchEvent("element", "input"),
                                    wait("50") >>]
              ELSE AfterValueSet(
                     [pc |-> "typed", element |-> [el EXCEPT !.value = text], text |-> text,
                      log |-> << focus, setValue(text), dispatchEvent("element", "input"),
                                 dispatchEvent("element", "change") >>])
         ELSE IF el.isContentEditable
         THEN [pc |-> "done", element |-> [el EXCEPT !.value = text], text |-> text,
               log |-> << focus, setInnerText(text), dispatchEvent("element", "input") >>]
         ELSE [pc |-> "done", element |-> el, text |-> text, log |-> << >>]

ExecuteType(el, text) ==
    /\ typing.pc = "idle"
    /\ typing' = executeType(el, text)
    /\ UNCHANGED <<navigatorVars, parserVars, dispatcherVars, exec, highlighterVars>>

(* after the 50 ms: the final value, the input and the change event *)
AfterClearDelay(t) ==
    AfterValueSet(
      [t EXCEPT
         !.pc = "typed",
         !.element.value = t.text,
         !.log = @ \o << setValue(t.text), dispatchEvent("element", "input"),
                         dispatchEvent("element", "change") >>])

ClearDelayElapsed ==
    /\ typing.pc = "cleared"
    /\ typing' = AfterClearDelay(typing)
    /\ UNCHANGED <<navigatorVars, parserVars, dispatcherVars, exec, highlighterVars>>

(* after the 200 ms: the Enter keydown and the submit event *)
AfterSubmitDelay(t) == [t EXCEPT !.pc = "done", !.log = @ \o Submission(t.element)]

SubmitDelayElapsed ==
    /\ typing.pc = "submitting"
    /\ typing' = AfterSubmitDelay(typing)
    /\ UNCHANGED <<navigatorVars, parserVars, dispatcherVars, exec, highlighterVars>>

TypingInit == ParserInit

TypingNext ==
    \/ \E el \in Targets, text \in Texts : ExecuteType(el, text)
    \/ ClearDelayElapsed
    \/ SubmitDelayElapsed

TypingSpec == TypingInit /\ [][TypingNext]_vars

----------------------------------------------------------------------------
(* The executor: executeAction(action), the highlight it starts, and the     *)
(* step of the command loop that calls it (useNavigator.ts:139-157)          *)

MaxActions == 2        \* executeAction calls followed
MaxHighlights == 1     \* direct highlightElement calls followed

HIGHLIGHT_DURATION == 1500

(* the durations highlightElement is called with: the default, the 1500 of   *)
(* executeAction, and a shorter one                                          *)
Durations == {HIGHLIGHT_DURATION, 300}

(* an inline style written by the page's author *)
AuthorStyle == Style("1px dotted", "none", "10", "")

(* lines 57-60 *)
HighlightStyle ==
    Style("3px solid #ff6b6b", "0 0 10px rgba(255, 107, 107, 0.5)", "9999", "all 0.3s ease")

(* setTimeout(() => { restore }, duration): the closure holds the element    *)
(* and the three values read at lines 52-54.  owner is the executeAction     *)
(* call that started the highlight, 0 for a direct call.                     *)
Timer(e, d, original, owner) ==
    [element |-> e, duration |-> d, owner |-> owner, outline |-> original.outline,
     boxShadow |-> original.boxShadow, zIndex |-> original.zIndex]

(* highlightElement(elementId, duration): the styles and the timers after    *)
(* the call                                                                  *)
highlightElement(elementId, duration, owner) ==
    LET e == querySelector(page, elementId)
    IN  IF e = 0 THEN [styles |-> styles, timers |-> timers]
        ELSE [styles |-> [styles EXCEPT ![e] = HighlightStyle],
              timers |-> Append(timers, Timer(e, duration, styles[e], owner))]

(* the timer callback, lines 63-67: transition is left as the highlight set  *)
(* it                                                                        *)
Restore(st, timer) ==
    [st EXCEPT ![timer.element] =
        [@ EXCEPT !.outline = timer.outline, !.boxShadow = timer.boxShadow,
                  !.zIndex = timer.zIndex]]

(* The elements executeAction is tried on: a search input inside a form, a   *)
(* textarea, a contenteditable block and a block that is not editable.       *)
ExecTargets ==
    { Target("input", "search", "", TRUE, FALSE, ""),
      Target("textarea", "textarea", "", FALSE, FALSE, ""),
      Target("div", "", "", FALSE, TRUE, ""),
      Target("div", "", "", FALSE, FALSE, "") }

(* the ids an action can carry: the first and the last element of the page,  *)
(* or none                                                                   *)
ExecIds == {0, NumElems - 1, Undefined}

(* AgentAction: text is << >> when the field is absent *)
ExecActions ==
    [action : {"TYPE"}, elementId : ExecIds, text : {<< >>, <<"tv">>}]
      \cup [action : {"CLICK"}, elementId : ExecIds, text : {<< >>}]
      \cup {[action |-> "DONE", elementId |-> Undefined, text |-> << >>]}

click == Step("click", "", "element", "", FALSE)

(* what the call did to the page apart from focus, scroll and highlight *)
Interactions(log) == SelectSeq(log, LAMBDA st : st.op # "focus" /\ st.op # "wait")

(* the catch block of executeAction, rethrowing *)
ActionCatchRethrows(threw) == threw

(* the catch block of executeAction (lines 49-51) logs the error: nothing    *)
(* escapes                                                                   *)
ActionCatch(threw) == FALSE

executorFrame ==
    <<rendered, sess, caller, planner, calls, commands, page, lastScan, requests,
      pageChanges, parserVars, dispatcherVars>>

(* executeAction returns (or rejects, when escaped).  Called from the loop,  *)
(* its return is followed by the history write of lines 147-154 and the      *)
(* step delay; a rejection goes to the catch block of executeCommand.        *)
Return(call, escaped) ==
    LET done == [call EXCEPT !.escaped = escaped]
    IN  IF ~call.fromLoop
        THEN /\ exec' = [done EXCEPT !.pc = "idle"]
             /\ state' = state
        ELSE IF escaped
        THEN /\ exec' = [done EXCEPT !.pc = "idle"]
             /\ state' = Catch(state, Error("Illegal invocation"))
        ELSE /\ exec' = [done EXCEPT !.pc = "stepDelay",
                                     !.effects = Append(@, Interactions(call.log))]
             /\ state' = [state EXCEPT !.history = AppendHistory(@, call.action)]

(* A step of the loop (fromLoop: validateAction, then executeAction) or a    *)
(* direct call of executeAction, up to the first await.  A DONE reply ends   *)
(* the loop before this step.                                                *)
ExecuteAction(action, fromLoop) ==
    /\ exec.pc = "idle"
    /\ exec.calls < MaxActions
    /\ fromLoop => action.action # "DONE"
    /\ typing' = NoTyping
    /\ LET e    == IF action.elementId = Undefined THEN 0
                   ELSE querySelector(page, action.elementId)
           call == [exec EXCEPT !.action = action, !.element = e, !.fromLoop = fromLoop,
                                !.calls = @ + 1, !.log = << >>, !.escaped = FALSE]
       IN  IF fromLoop /\ ActionIsInvalid(page, action)
           THEN /\ state' = Catch(state, Error(ElementNotFoundMessage(action)))
                /\ exec' = call
                /\ UNCHANGED highlighterVars
           ELSE IF action.action = "DONE" \/ e = 0
           THEN /\ Return(call, FALSE)
                /\ UNCHANGED highlighterVars
           ELSE LET h == highlightElement(action.elementId, 1500, call.calls)
                IN  /\ exec' = [call EXCEPT !.pc = "settle"]
                    /\ styles' = h.styles
                    /\ timers' = h.timers
                    /\ state' = state
    /\ UNCHANGED executorFrame

(* executeType has come to its end: executeAction returns, and the typed     *)
(* element keeps its value                                                   *)
TypeReturned(call, t) ==
    Return([call EXCEPT !.log = t.log, !.document[call.element] = t.element],
           ActionCatch(t.pc = "threw"))

(* after the 300 ms of line 30: the switch of lines 33-48 *)
VisualDelayElapsed ==
    /\ exec.pc = "settle"
    /\ IF exec.action.action = "CLICK"
       THEN /\ exec' = [exec EXCEPT !.pc = "clicked", !.log = << click, wait("100") >>]
            /\ UNCHANGED <<state, typing>>
       ELSE IF exec.action.text # << >>
       THEN LET t == executeType(exec.document[exec.element], exec.action.text[1])
            IN  /\ typing' = t
                /\ IF t.pc \in {"done", "threw"}
                   THEN TypeReturned(exec, t)
                   ELSE /\ exec' = [exec EXCEPT !.pc = "typing"]
                        /\ state' = state
       ELSE /\ Return(exec, FALSE)
            /\ UNCHANGED typing
    /\ UNCHANGED <<highlighterVars, executorFrame>>

(* after the 100 ms of executeClick *)
ClickDelayElapsed ==
    /\ exec.pc = "clicked"
    /\ Return(exec, FALSE)
    /\ UNCHANGED <<typing, highlighterVars, executorFrame>>

(* a delay of executeType elapses while executeAction awaits it *)
TypeDelayElapsed ==
    /\ exec.pc = "typing"
    /\ typing.pc \in {"cleared", "submitting"}
    /\ LET t == IF typing.pc = "cleared" THEN AfterClearDelay(typing)
                ELSE AfterSubmitDelay(typing)
       IN  /\ typing' = t
           /\ IF t.pc = "done" THEN TypeReturned(exec, t)
              ELSE UNCHANGED <<exec, state>>
    /\ UNCHANGED <<highlighterVars, executorFrame>>

(* the STEP_DELAY of line 157 elapses *)
NextStep ==
    /\ exec.pc = "stepDelay"
    /\ exec' = [exec EXCEPT !.pc = "idle"]
    /\ UNCHANGED <<state, typing, highlighterVars, executorFrame>>

(* highlightElement called by the application *)
HighlightElement(elementId, duration) ==
    /\ exec.highlights < MaxHighlights
    /\ LET h == highlightElement(elementId, duration, 0)
       IN  /\ styles' = h.styles
           /\ timers' = h.timers
    /\ exec' = [exec EXCEPT !.highlights = @ + 1]
    /\ UNCHANGED <<state, typing, executorFrame>>

(* Timer i is due: every timer set earlier with the same or a shorter        *)
(* duration has fired, and the 1500 ms of a highlight started by             *)
(* executeAction outlast that call and its step delay (at most 300 + 250 +   *)
(* 500 ms).                                                                  *)
Due(i) ==
    /\ \A j \in 1..(i - 1) : timers[j].duration > timers[i].duration
    /\ \/ timers[i].owner = 0
       \/ timers[i].owner < exec.calls
       \/ exec.pc = "idle"

TimerFires(i) ==
    /\ i \in 1..Len(timers)
    /\ Due(i)
    /\ styles' = Restore(styles, timers[i])
    /\ timers' = SubSeq(timers, 1, i - 1) \o SubSeq(timers, i + 1, Len(timers))
    /\ UNCHANGED <<state, typing, exec, executorFrame>>

ExecutorInit ==
    /\ utterance = ""
    /\ parsed = NoResult
    /\ location = "/"
    /\ store = initialState
    /\ messages = << Message("assistant", greeting, << >>) >>
    /\ isProcessing = FALSE
    /\ last = NoDispatch
    /\ state = [InitialState EXCEPT !.isProcessing = TRUE]
    /\ rendered = RenderOf(state)
    /\ sess = [s \in Sessions |-> NoSession]
    /\ caller = "ui" /\ planner = "any"
    /\ calls = 0
    /\ commands = 0
    \* the page after a scan: every element is tagged; the last one may have
    \* been unmounted since
    /\ \E mounted \in BOOLEAN :
          page = [e \in Elements |->
                    [FreshElement EXCEPT !.inDom = (e < NumElems \/ mounted),
                                         !.agentId = e - 1]]
    /\ lastScan = [e \in Elements |-> e]
    /\ requests = 0
    /\ pageChanges = 0
    /\ typing = NoTyping
    /\ styles \in [Elements -> {NoStyle, AuthorStyle}]
    /\ timers = << >>
    /\ \E first \in ExecTargets :
          exec = [NoExec EXCEPT
                    !.document = [e \in Elements |->
                                    IF e = 1 THEN first
                                    ELSE Target("div", "", "", FALSE, FALSE, "")],
                    !.initialStyles = styles]

ExecutorNext ==
    \/ \E action \in ExecActions, fromLoop \in BOOLEAN : ExecuteAction(action, fromLoop)
    \/ VisualDelayElapsed
    \/ ClickDelayElapsed
    \/ TypeDelayElapsed
    \/ NextStep
    \/ \E id \in ExecIds \ {Undefined}, d \in Durations : HighlightElement(id, d)
    \/ \E i \in 1..MaxActions + MaxHighlights : TimerFires(i)

ExecutorSpec == ExecutorInit /\ [][ExecutorNext]_vars

----------------------------------------------------------------------------
(* The sanitizer on short and on overlong inputs *)

MaxTail == 3      \* characters after the run of letters

(* n letters *)
Letters(n) == [i \in 1..n |-> "a"]

RECURSIVE Tails(_)
Tails(n) ==
    IF n = 0 THEN { << >> }
    ELSE Tails(n - 1) \cup { Append(t, c) : t \in Tails(n - 1), c \in {" ", "\t", "b"} }

(* inputs of sanitizeInput: a tail alone, or a tail after a run of letters   *)
(* that ends near the maximum length                                         *)
SanitizerInputs ==
    { Letters(n) \o t :
        n \in {0} \cup (MaxQueryLength - 3)..(MaxQueryLength + 1), t \in Tails(MaxTail) }

sanitizeResults == [i \in SanitizerInputs |-> sanitizeInput(i)]

(* sanitizeInput(input): the command bar hands the raw text to the hook,     *)
(* which keeps the sanitized query                                           *)
Sanitize(input) ==
    /\ utterance' = input
    /\ sess' = [sess EXCEPT ![1].sanitizedQuery = sanitizeResults[input]]
    /\ UNCHANGED <<state, rendered, caller, planner, calls, commands, page, lastScan,
                   requests, pageChanges, parsed, dispatcherVars, executorVars>>

SanitizerInit ==
    /\ ScannerInit
    /\ page = [e \in Elements |-> FreshElement]

SanitizerNext == \E input \in SanitizerInputs : Sanitize(input)

SanitizerSpec == SanitizerInit /\ [][SanitizerNext]_vars

----------------------------------------------------------------------------
(* The store: the cart actions dispatched by the pages *)

CartProducts == {"p1", "p2", "p3"}

(* the cart actions, with quantities from below zero to the largest followed *)
CartActions ==
    [type : {"ADD_TO_CART", "REMOVE_FROM_CART"}, payload : CartProducts]
      \cup [type : {"UPDATE_CART_QUANTITY"},
            payload : [id : CartProducts, quantity : -1..MaxQuantity]]
      \cup {[type |-> "CLEAR_CART", payload |-> ""]}

(* dispatch(action) of the store context: useReducer applies storeReducer    *)
Dispatch(action) ==
    /\ action.type = "ADD_TO_CART" =>
          \A i \in DOMAIN store.cart :
              store.cart[i].product = action.payload => store.cart[i].quantity < MaxQuantity
    /\ store' = storeReducer(store, action)
    /\ last' = [NoDispatch EXCEPT !.log = << dispatch(action.type, action.payload) >>]
    /\ UNCHANGED <<navigatorVars, parserVars, executorVars, location, messages, isProcessing>>

(* updateQuantity(id, quantity) of the cart page: the minus and plus buttons *)
(* of a cart line                                                            *)
updateQuantity(id, quantity) ==
    IF quantity <= 0
    THEN Dispatch([type |-> "REMOVE_FROM_CART", payload |-> id])
    ELSE Dispatch([type |-> "UPDATE_CART_QUANTITY",
                   payload |-> [id |-> id, quantity |-> quantity]])

StoreInit == ParserInit

StoreNext ==
    \/ \E action \in CartActions : Dispatch(action)
    \/ \E i \in 1..Len(store.cart), step \in {-1, 1} :
          /\ store.cart[i].quantity + step <= MaxQuantity
          /\ updateQuantity(store.cart[i].product, store.cart[i].quantity + step)

StoreSpec == StoreInit /\ [][StoreNext]_vars

----------------------------------------------------------------------------
(* Properties *)

Ended == {"done", "failed"}

Accepted(s) == sess[s].pc \in Running \cup Ended

(* The planner has answered every request of command s with a CLICK on an    *)
(* element that resolves, and the page has kept an interactive element.      *)
StubBehaviour(s) == sess[s].stub /\ ~sess[s].emptyScan

(* C1: with a planner that answers every call with a CLICK on an element     *)
(* that resolves, a command makes exactly MAX_STEPS planner calls, executes  *)
(* exactly MAX_STEPS actions and then fails with MAX_STEPS_EXCEEDED; no      *)
(* command ever executes more than MAX_STEPS actions.                        *)
C1_LoopTermination ==
    \A s \in Sessions :
        /\ sess[s].plannerCalls <= MAX_STEPS
        /\ sess[s].started <= MAX_STEPS
        /\ sess[s].executed <= MAX_STEPS
        /\ (StubBehaviour(s) /\ sess[s].pc \in Ended) =>
              /\ sess[s].pc = "failed"
              /\ sess[s].thrown = ERROR_MESSAGES.MAX_STEPS_EXCEEDED
              /\ sess[s].final.error = ERROR_MESSAGES.MAX_STEPS_EXCEEDED
              /\ sess[s].plannerCalls = MAX_STEPS
              /\ sess[s].executed = MAX_STEPS
        /\ sess[s].thrown = ERROR_MESSAGES.MAX_STEPS_EXCEEDED =>
              sess[s].plannerCalls = MAX_STEPS /\ sess[s].executed <= MAX_STEPS

C1_Witness ==
    \E s \in Sessions :
        /\ StubBehaviour(s)
        /\ sess[s].pc = "failed"
        /\ sess[s].executed = MAX_STEPS
        /\ state.error = ERROR_MESSAGES.MAX_STEPS_EXCEEDED

(* C2: at most one executeCommand session is between acceptance and          *)
(* termination at any time, for every interleaving of calls.                 *)
C2_SingleSession ==
    Cardinality({s \in Sessions : sess[s].pc \in Running}) <= 1

(* C3: validateAction returns false for every CLICK/TYPE whose elementId is  *)
(* not an id issued by the most recent scan.                                 *)
IssuedByLastScan(id) == id + 1 \in DOMAIN lastScan

C3_ValidateRejectsUnissuedIds ==
    \A id \in 0..NumElems, kind \in {"CLICK", "TYPE"} :
        validateAction(page, [action |-> kind, elementId |-> id]) => IssuedByLastScan(id)

(* C4: when a scan returns zero elements the command fails at once with the  *)
(* NO_INTERACTIVE_ELEMENTS error and the planner is not called for that      *)
(* iteration (in the first iteration: never in that command).                *)
C4_EmptyScanFails ==
    \A s \in Sessions :
        /\ sess[s].plannerCalls <= sess[s].scans
        /\ sess[s].emptyScan =>
              /\ sess[s].pc = "failed"
              /\ sess[s].thrown = ERROR_MESSAGES.NO_INTERACTIVE_ELEMENTS
              /\ sess[s].final.error = ERROR_MESSAGES.NO_INTERACTIVE_ELEMENTS
              /\ ~sess[s].final.isProcessing
              /\ sess[s].plannerCalls = sess[s].scans - 1
        /\ (sess[s].pc \in Running /\ ~sess[s].emptyScan) =>
              sess[s].plannerCalls = sess[s].scans

C4_Witness ==
    \E s \in Sessions :
        sess[s].emptyScan /\ sess[s].scans = 1 /\ sess[s].plannerCalls = 0
            /\ state.error = ERROR_MESSAGES.NO_INTERACTIVE_ELEMENTS

(* C5: an accepted command ends without an error only by DONE; on DONE the   *)
(* action is the last history entry, lastAction is the DONE action, error is *)
(* null and isProcessing is false; every other ending sets a non-null error. *)
C5_DoneIsTheOnlyCleanExit ==
    \A s \in Sessions :
        /\ sess[s].pc = "done" =>
              /\ sess[s].final.lastAction.action = "DONE"
              /\ sess[s].final.lastEntry = sess[s].final.lastAction
              /\ sess[s].final.error = Null
              /\ ~sess[s].final.isProcessing
        /\ sess[s].pc = "failed" => sess[s].final.error # Null

(* C6: a CLICK/TYPE reply that does not validate against the page aborts the *)
(* whole command with the element-not-found error; the action is not        *)
(* executed, not appended to history, and no scan or planner call follows.   *)
C6_InvalidActionAborts ==
    \A s \in Sessions :
        sess[s].unresolved =>
            /\ sess[s].pc = "failed"
            /\ \E id \in 0..NumElems \cup {Undefined} :
                  /\ sess[s].thrown = ElementNotFoundMessage([elementId |-> id])
                  /\ sess[s].final.error = sess[s].thrown
            /\ sess[s].started = sess[s].plannerCalls - 1
            /\ sess[s].executed = sess[s].started
            /\ sess[s].appended = sess[s].started
            /\ sess[s].scans = sess[s].plannerCalls

C6_Witness ==
    \E s \in Sessions :
        sess[s].unresolved /\ sess[s].pc = "failed" /\ sess[s].plannerCalls = 2
            /\ sess[s].appended = 1

(* C7: a planner call that exceeds the request timeout is aborted; a call    *)
(* that times out, fails in transport or returns a non-OK status ends the    *)
(* command as failed, with no further planner call and no action executed.   *)
C7_PlannerFailureIsTerminal ==
    \A s \in Sessions :
        sess[s].plannerFailure =>
            /\ sess[s].pc = "failed"
            /\ sess[s].scans = sess[s].plannerCalls
            /\ sess[s].started = sess[s].plannerCalls - 1
            /\ sess[s].executed = sess[s].started

C7_TimeoutAborts ==
    /\ C7_PlannerFailureIsTerminal
    /\ \A s \in Sessions : sess[s].overdue => sess[s].aborted

(* C8: whenever a step of a command throws, the command ends with            *)
(* isProcessing false and a non-null error message; once no command is       *)
(* running the state is idle, and so is every render committed from it.      *)
C8_FailureLeavesIdle ==
    /\ \A s \in Sessions :
          sess[s].pc = "failed" =>
              ~sess[s].final.isProcessing /\ sess[s].final.error # Null
    /\ (\A s \in Sessions : sess[s].pc \notin Running) => ~state.isProcessing
    /\ ((\A s \in Sessions : sess[s].pc \notin Running) /\ Committed) => ~AlreadyProcessing

C8_Witness ==
    \E s, t \in Sessions :
        /\ s < t /\ sess[s].pc = "failed" /\ sess[s].plannerFailure
        /\ sess[t].afterFailure /\ sess[t].pc \in Running /\ sess[t].plannerCalls >= 1

(* C8: whenever a step of a command throws, the command ends with            *)
(* isProcessing false and a non-null error message, and an executeCommand    *)
(* called after that failure, while no command is running, is accepted.      *)
C8_NextCommandAccepted ==
    /\ C8_FailureLeavesIdle
    /\ \A s \in Sessions : sess[s].afterFailure => sess[s].pc # "rejected"

(* C9: the error string shown after a failed command is one of the           *)
(* configured messages; planner failures show API_ERROR.                     *)
C9_OnlyConfiguredMessages ==
    /\ state.error \in ConfiguredMessages \cup {Null}
    /\ \A s \in Sessions :
          sess[s].plannerFailure => sess[s].final.error = ERROR_MESSAGES.API_ERROR

(* C10: an action is appended to history only after its execution has        *)
(* completed, and during a command history changes only by appending the     *)
(* completed action at the end (clearHistory apart).                         *)
AppendsCompleted(s) ==
    /\ sess[s].pc = "acting"
    /\ sess'[s].pc = "stepDelay"
    /\ state'.history = Append(state.history, sess[s].action)

AppendsDone(s) ==
    /\ sess[s].pc = "body"
    /\ sess'[s].pc = "done"
    /\ state'.history = Append(state.history, sess'[s].final.lastAction)

C10_HistoryAppendOnly ==
    [][ /\ \A s \in Sessions : sess'[s].appended <= sess'[s].completed
        /\ state'.history # state.history =>
              \/ state'.history = <<>> /\ calls' = calls + 1
              \/ \E s \in Sessions : AppendsCompleted(s) \/ AppendsDone(s) ]_vars

(* C11: the history sent to the planner at each call is the history the hook *)
(* held when the command was called, followed by the actions executed so far *)
(* in this command, in execution order.                                      *)
C11_PlannerSeesHistory ==
    \A s \in Sessions :
        sess[s].pc \in {"fetch", "body"} =>
            sess[s].currentHistory = sess[s].heldHistory \o sess[s].performed

(* C12: within one command every iteration runs scan, one planner call on    *)
(* that scan, validation of the returned action, execution, history append   *)
(* and the inter-step delay, in that order: no planner call is issued while  *)
(* an action is executing, and every executed action was validated in its    *)
(* iteration, after the scan of that iteration.                              *)
C12_StepsInOrder ==
    \A s \in Sessions :
        LET se == sess[s]
            n  == se.plannerCalls
        IN  /\ se.pc \in Running => (se.stepCount = se.scans /\ se.scans = n /\ n >= 1)
            /\ se.pc \in {"fetch", "body"} =>
                  /\ se.validated = n - 1 /\ se.started = n - 1
                  /\ se.executed = n - 1 /\ se.completed = n - 1 /\ se.appended = n - 1
            /\ se.pc = "settle" =>
                  /\ se.validated = n /\ se.started = n
                  /\ se.executed = n - 1 /\ se.completed = n - 1 /\ se.appended = n - 1
            /\ se.pc = "acting" =>
                  /\ se.validated = n /\ se.started = n
                  /\ se.executed = n /\ se.completed = n - 1 /\ se.appended = n - 1
            /\ se.pc = "stepDelay" =>
                  /\ se.validated = n /\ se.started = n
                  /\ se.executed = n /\ se.completed = n /\ se.appended = n
            /\ Len(se.performed) = se.completed \/ se.pc \notin Running

C12_Witness ==
    \E s \in Sessions :
        sess[s].pc = "stepDelay" /\ sess[s].plannerCalls = 2 /\ sess[s].completed = 2

(* C13: executeCommand with a query that is empty after sanitization, called *)
(* while no command is processing, does no work: no scan, no planner call,   *)
(* no page action, history unchanged, isProcessing stays false, and the      *)
(* EMPTY_COMMAND message becomes the error.                                  *)
C13_EmptyCommandRejected ==
    [][ \A q \in Queries :
          (sanitizeInput(q) = <<>> /\ ~state.isProcessing /\ ExecuteCommand(q)) =>
              /\ state'.error = ERROR_MESSAGES.EMPTY_COMMAND
              /\ state'.history = state.history
              /\ ~state'.isProcessing
              /\ page' = page /\ lastScan' = lastScan /\ requests' = requests
              /\ sess'[commands'].scans = 0
              /\ sess'[commands'].plannerCalls = 0
              /\ sess'[commands'].started = 0 ]_vars

(* C14: executeCommand called while a command is processing is rejected with *)
(* the configured already-processing message shown to the user, and changes  *)
(* no state of the running command (isProcessing, history, lastAction).      *)
C14_RejectionIsShown ==
    [][ \A s \in Sessions :
          (sess[s].pc = "unused" /\ sess'[s].pc = "rejected") =>
              /\ state'.error = ERROR_MESSAGES.ALREADY_PROCESSING
              /\ state'.isProcessing = state.isProcessing
              /\ state'.history = state.history
              /\ state'.lastAction = state.lastAction ]_vars

(* C14, the part about the running command: a rejected call changes nothing  *)
(* of the hook's state.                                                      *)
C14_RejectionChangesNothing ==
    [][ \A s \in Sessions :
          (sess[s].pc = "unused" /\ sess'[s].pc = "rejected") => state' = state ]_vars

(* C15: a planner response whose action field is absent or is not one of     *)
(* CLICK, TYPE, DONE is an error and is never coerced: the command fails,    *)
(* the response is not validated, not executed and not appended to history.  *)
C15_MalformedResponseFails ==
    \A s \in Sessions :
        /\ sess[s].malformed =>
              /\ sess[s].pc = "failed"
              /\ sess[s].thrown = "Invalid response format from backend"
              /\ sess[s].final.error = sess[s].thrown
              /\ ~sess[s].final.isProcessing
              /\ sess[s].validated = sess[s].plannerCalls - 1
              /\ sess[s].started = sess[s].plannerCalls - 1
              /\ sess[s].executed = sess[s].plannerCalls - 1
              /\ sess[s].appended = sess[s].plannerCalls - 1
        /\ sess[s].action.action \in KnownActions \cup {NullAction.action}
        /\ state.lastAction.action \in KnownActions \cup {NullAction.action}
        /\ \A i \in 1..Len(state.history) : state.history[i].action \in KnownActions

C15_Witness ==
    \E s \in Sessions :
        /\ sess[s].malformed /\ sess[s].pc = "failed"
        /\ sess[s].plannerCalls = 2 /\ sess[s].appended = 1
        /\ state.error = "Invalid response format from backend"

(* C16: when clearHistory is called while a planner call of a running        *)
(* command is pending, the action returned by that call is not applied: no   *)
(* CLICK or TYPE of that reply is executed on the page.                      *)
C16_DiscardedReplyNotApplied ==
    \A s \in Sessions :
        sess[s].pc \in {"settle", "acting"} => ~sess[s].discarded

(* C17: every accepted command terminates, in Done or Failed, with           *)
(* isProcessing false, after at most MAX_STEPS planner calls and at most     *)
(* MAX_STEPS executed actions, whatever the planner answers, provided every  *)
(* planner call returns or times out and every delay elapses.                *)
C17_CommandTerminates ==
    \A s \in Sessions :
        /\ [](sess[s].plannerCalls <= MAX_STEPS /\ sess[s].executed <= MAX_STEPS)
        /\ (sess[s].pc \in Running) ~>
              (sess[s].pc \in Ended /\ ~sess[s].final.isProcessing)

C17_Witness ==
    \E s \in Sessions :
        /\ sess[s].pc = "done" /\ ~sess[s].final.isProcessing
        /\ sess[s].plannerCalls = 2 /\ sess[s].executed = 1

(* the text of the original input after the first occurrence of lead-in kw   *)
Trailing(original, kw) ==
    LET orig == trim(original)
        i    == Least(Occurrences(toLowerCase(orig), kw))
    IN  trim(SubSeq(orig, i + Len(kw), Len(orig)))

(* C18: for every input made of a navigation lead-in followed by a           *)
(* recognized location alias, parse returns a navigation command with        *)
(* confidence 0.9 whose path is the canonical path of that alias.            *)
C18_NavigationToCanonicalPath ==
    \A k \in DOMAIN navigationKeywords, l \in DOMAIN locations :
        LET lower == trim(toLowerCase(utterance))
        IN  (/\ includes(lower, navigationKeywords[k])
             /\ Trailing(utterance, navigationKeywords[k]) = locations[l].location) =>
                parsed.command =
                    Command("navigation", "navigate", [path |-> locations[l].path], 9)

(* C19: for every input containing a search lead-in followed by trailing     *)
(* text longer than one character, and matching no rule of higher priority,  *)
(* parse returns a search command with confidence 0.9 whose query is that    *)
(* trailing text, in the case of the original input.                         *)
C19_SearchKeepsTrailingText ==
    LET lower == trim(toLowerCase(utterance))
        leads == { k \in DOMAIN searchKeywords :
                     /\ includes(lower, searchKeywords[k])
                     /\ Len(Trailing(utterance, searchKeywords[k])) > 1 }
    IN  (/\ leads # {}
         /\ findExactMatch(lower) = NullCommand
         /\ parseNavigation(lower) = NullCommand) =>
            /\ parsed.command.type = "search"
            /\ parsed.command.action = "search"
            /\ parsed.command.confidence = 9
            /\ \E k \in leads :
                  parsed.command.parameters = [query |-> Trailing(utterance, searchKeywords[k])]

(* C20: parse applies its rules in the order exact phrase, navigation,       *)
(* search, category, cart, help, product info and returns the command of the *)
(* first that matches; an input that satisfies both the navigation rule and  *)
(* the search rule is classified as navigation.                              *)
C20_RulePriority ==
    LET lower == trim(toLowerCase(utterance))
        first == IF findExactMatch(lower) # NullCommand THEN findExactMatch(lower)
                 ELSE IF parseNavigation(lower) # NullCommand THEN parseNavigation(lower)
                 ELSE IF parseSearch(lower) # NullCommand THEN parseSearch(lower)
                 ELSE IF parseCategory(lower) # NullCommand THEN parseCategory(lower)
                 ELSE IF parseCart(lower) # NullCommand THEN parseCart(lower)
                 ELSE IF parseHelp(lower) # NullCommand THEN parseHelp(lower)
                 ELSE parseProduct(lower)
    IN  parsed # NoResult =>
            /\ parsed.command = first
            /\ (parseNavigation(lower) # NullCommand /\ parseSearch(lower) # NullCommand) =>
                  parsed.command.type = "navigation"

C20_Witness ==
    LET lower == trim(toLowerCase(utterance))
    IN  /\ includes(lower, "show me")
        /\ parseNavigation(lower) # NullCommand
        /\ parseSearch(lower) # NullCommand
        /\ parsed.command.type = "navigation"

(* the first lead-in of kws that the lowercased input contains, 0 if none *)
FirstLeadIn(lower, kws) ==
    LET in == { k \in DOMAIN kws : includes(lower, kws[k]) }
    IN  IF in = {} THEN 0 ELSE Least(in)

(* C21: in the search rule and in the cart rule the text left after          *)
(* stripping the first matching lead-in is accepted as query / product name  *)
(* only if its trimmed length exceeds 1; when it has length 0 or 1 the rule  *)
(* yields no command.                                                        *)
C21_ShortRemainderRejected ==
    LET lower == trim(toLowerCase(utterance))
        s     == FirstLeadIn(lower, searchKeywords)
        c     == FirstLeadIn(lower, cartKeywords)
    IN  /\ parsed.command.type = "search" => Len(parsed.command.parameters.query) > 1
        /\ parsed.command.action = "add" => Len(parsed.command.parameters.product) > 1
        /\ (s # 0 /\ Len(trim(remove(lower, searchKeywords[s]))) <= 1) =>
              (parseSearch(lower) = NullCommand /\ parsed.command.type # "search")
        /\ (c # 0 /\ Len(trim(remove(lower, cartKeywords[c]))) <= 1) =>
              (parseCart(lower) = NullCommand /\ parsed.command.action # "add")

(* C22: for every input whose lowercased, trimmed text is an entry of the    *)
(* exact-phrase table, parse returns the fixed command of that entry with    *)
(* confidence exactly 1.0, before any keyword rule is tried.                 *)
C22_ExactPhraseWins ==
    LET lower == trim(toLowerCase(utterance))
        Is(type, action, parameters) ==
            parsed.command = [type |-> type, action |-> action,
                              parameters |-> parameters, confidence |-> 10]
    IN  parsed # NoResult =>
          /\ lower \in {"help", "what can you do"} => Is("help", "help", NoParameters)
          /\ lower = "go home" => Is("navigation", "navigate", [path |-> "/"])
          /\ lower \in {"show cart", "view cart"} => Is("cart", "view", NoParameters)
          /\ lower \in {"clear cart", "empty cart"} => Is("cart", "clear", NoParameters)

C22_Witness ==
    /\ utterance = " View Cart "
    /\ parseCart(trim(toLowerCase(utterance))) # NullCommand
    /\ parsed.command.action = "view"
    /\ parsed.command.confidence = 10

(* C23: parse returns a result for every input, the empty string included    *)
(* (parse is a total operator: no step of it can throw on a string), and the *)
(* result carries exactly one of the two: a non-null command with no *)
(* suggestions, or a null command with 2 or 3 suggestions; originalText is   *)
(* the input verbatim.                                                       *)
C23_CommandOrSuggestions ==
    parsed # NoResult =>
        /\ parsed.originalText = utterance
        /\ \/ parsed.command # NullCommand /\ parsed.suggestions = << >>
           \/ parsed.command = NullCommand /\ Len(parsed.suggestions) \in {2, 3}

C23_Witness ==
    /\ utterance = ""
    /\ parsed.command = NullCommand
    /\ Len(parsed.suggestions) = 3

(* C24: on no match the suggestion bucket is chosen by the first test that   *)
(* holds: input shorter than 3 characters, starter hints; contains "go" or   *)
(* "navigate", navigation examples; contains "find" or "search", search      *)
(* examples; contains "cart" or "buy", cart examples; otherwise the generic  *)
(* fallback.                                                                 *)
C24_SuggestionBucket ==
    LET lower == trim(toLowerCase(utterance))
        Has(a, b) == includes(lower, a) \/ includes(lower, b)
    IN  (parsed # NoResult /\ parsed.command = NullCommand) =>
          /\ Len(lower) < 3 => parsed.suggestions = starterHints
          /\ (Len(lower) >= 3 /\ Has("go", "navigate")) =>
                parsed.suggestions = navigationExamples
          /\ (Len(lower) >= 3 /\ ~Has("go", "navigate") /\ Has("find", "search")) =>
                parsed.suggestions = searchExamples
          /\ (Len(lower) >= 3 /\ ~Has("go", "navigate") /\ ~Has("find", "search")
                /\ Has("cart", "buy")) =>
                parsed.suggestions = cartExamples
          /\ (Len(lower) >= 3 /\ ~Has("go", "navigate") /\ ~Has("find", "search")
                /\ ~Has("cart", "buy")) =>
                parsed.suggestions = fallbackExamples

C24_Witness ==
    /\ utterance = "asdkjhasd"
    /\ parsed.command = NullCommand
    /\ parsed.suggestions = fallbackExamples

(* the route changes and store dispatches of the latest handleCommand call *)
EffectsOfLast == SelectSeq(last.log, LAMBDA c : c.kind \in {"navigate", "dispatch"})

(* C25: dispatching a cart-add command never changes the cart; a dispatched  *)
(* command changes the cart only if it is cart-clear, which empties it.      *)
C25_CartChangedOnlyByClear ==
    [][ messages' # messages =>
          /\ (last'.command.type = "cart" /\ last'.command.action = "add") =>
                store'.cart = store.cart
          /\ store'.cart # store.cart =>
                /\ last'.command.type = "cart" /\ last'.command.action = "clear"
                /\ store'.cart = << >> ]_vars

C25_Witness ==
    /\ last.command.type = "cart" /\ last.command.action = "add"
    /\ store.cart # << >>

C27_OneAcknowledgment ==
    last.command # NullCommand =>
        /\ Len(Only(last.log, "addMessage")) = 1
        /\ Len(Only(last.log, "speak")) = 1

(* C28: if the route change or a store dispatch throws while a command is    *)
(* dispatched, the exception is caught, the generic acknowledgment is        *)
(* produced, the processing flag is cleared and nothing propagates.          *)
C28_DispatchErrorCaught ==
    /\ ~last.escaped
    /\ last.command # NullCommand => ~isProcessing
    /\ last.threw =>
          /\ messages[Len(messages)] =
                Message("assistant", "Sorry, I encountered an error. Please try again.", << >>)
          /\ \E i \in DOMAIN last.log :
                last.log[i] = [kind |-> "speak", type |-> "",
                               payload |-> "Sorry, I encountered an error. Please try again."]

C28_Witness ==
    /\ last.threw
    /\ last.command.type = "navigation"
    /\ location = "/"
    /\ ~isProcessing

(* C29: a scan returns exactly the matched elements that are visible and not *)
(* disabled, where disabled means the native disabled state or               *)
(* aria-disabled="true" for every element kind, in document order, with the  *)
(* ids 0..n-1, each written onto its element.                                *)
C29_ScanReturnsEnabledElements ==
    LET scan == collectInteractiveElements(page)
    IN  /\ scan.snapshot =
              SelectSeq([i \in 1..NumElems |-> i],
                        LAMBDA e : /\ page[e].inDom
                                   /\ page[e].visible
                                   /\ ~(page[e].disabled \/ page[e].ariaDisabled))
        /\ \A i \in 1..Len(scan.snapshot) : scan.page[scan.snapshot[i]].agentId = i - 1

(* what executeType did to the page, without the focus call *)
Interaction == SelectSeq(typing.log, LAMBDA st : st.op # "focus")

(* C30: a TYPE action on a search-like input inside a form dispatches, in    *)
(* this order: value cleared and input event, delay, value set to the text   *)
(* and input event and change event, delay, Enter keydown (bubbling,         *)
(* cancelable) on the input, submit event on the enclosing form.             *)
C30_TypeThenSubmitOrder ==
    LET el == typing.element
    IN  (/\ typing.pc = "done"
         /\ el.tag = "input"
         /\ (el.type = "search" \/ el.placeholder = "Search products")
         /\ el.form) =>
            /\ Interaction =
                 << [op |-> "value", type |-> "", on |-> "element", arg |-> "",
                     cancelable |-> FALSE],
                    [op |-> "event", type |-> "input", on |-> "element", arg |-> "",
                     cancelable |-> FALSE],
                    [op |-> "wait", type |-> "", on |-> "", arg |-> "50", cancelable |-> FALSE],
                    [op |-> "value", type |-> "", on |-> "element", arg |-> typing.text,
                     cancelable |-> FALSE],
                    [op |-> "event", type |-> "input", on |-> "element", arg |-> "",
                     cancelable |-> FALSE],
                    [op |-> "event", type |-> "change", on |-> "element", arg |-> "",
                     cancelable |-> FALSE],
                    [op |-> "wait", type |-> "", on |-> "", arg |-> "200",
                     cancelable |-> FALSE],
                    [op |-> "event", type |-> "keydown", on |-> "element", arg |-> "Enter",
                     cancelable |-> TRUE],
                    [op |-> "event", type |-> "submit", on |-> "form", arg |-> "",
                     cancelable |-> TRUE] >>
            /\ el.value = typing.text

C30_Witness ==
    /\ typing.pc = "done"
    /\ typing.element.tag = "input"
    /\ typing.element.type = "text" /\ typing.element.placeholder = "Search products"
    /\ typing.element.form
    /\ typing.text = "red shoes"
    /\ Len(typing.log) = 10

(* C31: for a TYPE action on a search-like input (type search, or a          *)
(* placeholder containing "search") the Enter keydown is dispatched on the   *)
(* input whether or not an enclosing form exists; only the submit event      *)
(* depends on the form being present.                                        *)
C31_EnterKeydownWithoutForm ==
    LET el == typing.element
        Has(st) == \E i \in 1..Len(typing.log) : typing.log[i] = st
    IN  (/\ typing.pc = "done"
         /\ el.tag = "input"
         /\ SearchLike(el)) =>
            /\ Has(enterKeydown)
            /\ Has(submitEvent) <=> el.form

(* C32: after highlightElement(id, d), once every pending highlight timer    *)
(* has fired, the element's outline, box-shadow and z-index equal their      *)
(* values from before the first highlight, also when the same element is     *)
(* highlighted again before an earlier highlight's duration has elapsed.     *)
C32_HighlightReverts ==
    timers = << >> =>
        \A e \in Elements :
            /\ styles[e].outline = exec.initialStyles[e].outline
            /\ styles[e].boxShadow = exec.initialStyles[e].boxShadow
            /\ styles[e].zIndex = exec.initialStyles[e].zIndex

(* the executeAction call of exec has returned to its caller *)
ActionReturned ==
    /\ exec.calls > 0
    /\ exec.pc \in {"idle", "stepDelay"}
    /\ exec.fromLoop => ~ActionIsInvalid(page, exec.action)

(* C33: executeAction never throws to the loop: for DONE it does nothing;    *)
(* for a CLICK/TYPE whose element does not resolve, and for a TYPE on an     *)
(* element that is not typeable, it performs no interaction on the page and  *)
(* returns normally.                                                         *)
C33_ExecuteActionNeverThrows ==
    /\ ~exec.escaped
    /\ ActionReturned =>
         LET target == exec.document[exec.element]
         IN  /\ exec.action.action = "DONE" => exec.log = << >>
             /\ exec.element = 0 => exec.log = << >>
             /\ (/\ exec.element # 0
                 /\ exec.action.action = "TYPE"
                 /\ target.tag \notin {"input", "textarea"}
                 /\ ~target.isContentEditable) => Interactions(exec.log) = << >>

(* a TYPE with text on a block that is not editable has returned, and a TYPE *)
(* on a textarea, whose value setter threw, has returned too                 *)
C33_Witness ==
    /\ ActionReturned
    /\ exec.action.action = "TYPE"
    /\ exec.action.text = << "tv" >>
    /\ exec.element = 1
    /\ exec.document[1].tag = "div"
    /\ ~exec.document[1].isContentEditable
    /\ exec.log = << >>
    /\ Len(timers) > 0

(* the steps that act on the page: a click dispatched, or the value set *)
Performed(effects) ==
    \E k \in 1..Len(effects) : effects[k].op \in {"click", "value", "innerText"}

(* C37: every CLICK or TYPE entry in history corresponds to an interaction   *)
(* that was actually performed on the page (a click dispatched, or the value *)
(* set): an action whose execution did nothing (TYPE without text, TYPE on a *)
(* non-typeable element, an interaction that threw inside the executor) is   *)
(* never appended to history.                                                *)
C37_HistoryEntriesWerePerformed ==
    \A i \in 1..Len(state.history) :
        state.history[i].action \in {"CLICK", "TYPE"} => Performed(exec.effects[i])

(* C34: clearHistory and resetError are idempotent and independent: applying *)
(* either twice gives the same state as applying it once, they commute,      *)
(* clearHistory changes only the history and not the error, resetError       *)
(* changes only the error and not the history or lastAction, and neither     *)
(* changes isProcessing.                                                     *)
C34_IdempotentAndIndependent ==
    LET cleared == ClearHistoryUpdate(state)
        reset   == ResetErrorUpdate(state)
    IN  /\ ClearHistoryUpdate(cleared) = cleared
        /\ ResetErrorUpdate(reset) = reset
        /\ ClearHistoryUpdate(reset) = ResetErrorUpdate(cleared)
        /\ cleared.error = state.error
        /\ cleared.lastAction = state.lastAction
        /\ reset.history = state.history
        /\ reset.lastAction = state.lastAction
        /\ cleared.isProcessing = state.isProcessing
        /\ reset.isProcessing = state.isProcessing

(* the same without the two conjuncts on what clearHistory leaves alone *)
C34_IdempotentAndCommuting ==
    LET cleared == ClearHistoryUpdate(state)
        reset   == ResetErrorUpdate(state)
    IN  /\ ClearHistoryUpdate(cleared) = cleared
        /\ ResetErrorUpdate(reset) = reset
        /\ ClearHistoryUpdate(reset) = ResetErrorUpdate(cleared)
        /\ reset.history = state.history
        /\ reset.lastAction = state.lastAction
        /\ cleared.isProcessing = state.isProcessing
        /\ reset.isProcessing = state.isProcessing

(* C35: every example command of the user documentation is classified to the *)
(* intent the documentation gives: the four navigation examples navigate to  *)
(* /products, /cart, / and /checkout; the three search examples search for   *)
(* their terms; the two category examples filter by their category; "View    *)
(* cart" and "Show my basket" open the cart; "Clear cart" and "Empty cart"   *)
(* clear it; "Help" and "What can you do?" give help.                        *)
C35_DocumentedExamples ==
    LET c == parsed.command
        Navigates(path) == c.type = "navigation" /\ c.action = "navigate"
                             /\ c.parameters = [path |-> path]
        Searches(query) == c.type = "search" /\ c.action = "search"
                             /\ c.parameters = [query |-> query]
        Filters(category) == c.type = "category" /\ c.action = "filter"
                               /\ c.parameters = [category |-> category]
        OpensCart == \/ c.type = "cart" /\ c.action = "view"
                     \/ Navigates("/cart")
    IN  /\ utterance = "Go to products" => Navigates("/products")
        /\ utterance = "Take me to cart" => Navigates("/cart")
        /\ utterance = "Show me home" => Navigates("/")
        /\ utterance = "Navigate to checkout" => Navigates("/checkout")
        /\ utterance = "Search for shoes" => Searches("shoes")
        /\ utterance = "Find red dresses" => Searches("red dresses")
        /\ utterance = "Look for electronics" => Searches("electronics")
        /\ utterance = "Show electronics category" => Filters("electronics")
        /\ utterance = "Filter by clothing" => Filters("clothing")
        /\ utterance \in {"View cart", "Show my basket"} => OpensCart
        /\ utterance \in {"Clear cart", "Empty cart"} => (c.type = "cart" /\ c.action = "clear")
        /\ utterance \in {"Help", "What can you do?"} => (c.type = "help" /\ c.action = "help")

(* C36: after any sequence of scans and page changes, the element that       *)
(* executeAction acts on for elementId i is the i-th element of the most     *)
(* recent scan: at most one element in the document carries each             *)
(* data-agent-id value, and no element outside the latest scan keeps an id.  *)
C36_IdsDenoteLatestScan ==
    LET Tagged(id) == {e \in Elements : page[e].inDom /\ page[e].agentId = id}
    IN  /\ \A id \in 0..NumElems : Cardinality(Tagged(id)) <= 1
        /\ \A e \in Elements :
              (page[e].inDom /\ page[e].agentId # Undefined) =>
                  /\ page[e].agentId + 1 \in DOMAIN lastScan
                  /\ lastScan[page[e].agentId + 1] = e
        /\ \A id \in 0..NumElems :
              querySelector(page, id) # 0 =>
                  /\ id + 1 \in DOMAIN lastScan
                  /\ querySelector(page, id) = lastScan[id + 1]

(* command s writes history in this step: after an executed action, or on a  *)
(* DONE reply                                                                *)
WritesHistory(s) ==
    /\ sess[s].pc \in {"acting", "body"}
    /\ sess'[s].pc \in {"stepDelay", "done"}

(* C38: after clearHistory returns, history never again contains an action   *)
(* that was executed before the clear: when clearHistory is called while a   *)
(* command is running, the later history writes of that command do not       *)
(* restore the cleared entries.                                              *)
C38_ClearedEntriesStayCleared ==
    [][ \A s \in Sessions :
           WritesHistory(s) =>
              Len(state'.history) <= Len(sess[s].currentHistory) - sess[s].stale + 1 ]_vars

(* C39: sanitizeInput is idempotent, and its output has no leading or        *)
(* trailing whitespace, no run of two or more whitespace characters, and     *)
(* length at most the fixed maximum (500), for every input including inputs  *)
(* longer than the maximum.                                                  *)
C39_SanitizeIdempotentAndTrimmed ==
    LET out == sess[1].sanitizedQuery
    IN  /\ sanitizeInput(out) = out
        /\ out # << >> => (out[1] \notin Whitespace /\ out[Len(out)] \notin Whitespace)
        /\ \A i \in 1..(Len(out) - 1) : ~(out[i] \in Whitespace /\ out[i + 1] \in Whitespace)
        /\ Len(out) <= MaxQueryLength

(* C40: after any sequence of ADD_TO_CART, REMOVE_FROM_CART,                 *)
(* UPDATE_CART_QUANTITY and CLEAR_CART actions on the store, every cart line *)
(* has quantity >= 1 and no two cart lines share a product id; ADD_TO_CART   *)
(* of a product already in the cart increments its quantity by exactly 1     *)
(* without adding a line, and UPDATE_CART_QUANTITY with quantity <= 0        *)
(* removes the line.                                                         *)
C40_CartLines ==
    [][ LET action == last'.log[1]
            before == store.cart
            after  == store'.cart
        IN  /\ \A i \in DOMAIN after : after[i].quantity >= 1
            /\ \A i, j \in DOMAIN after : i # j => after[i].product # after[j].product
            /\ (/\ action.type = "ADD_TO_CART"
                /\ \E i \in DOMAIN before : before[i].product = action.payload) =>
                   /\ Len(after) = Len(before)
                   /\ \A i \in DOMAIN before :
                         after[i] = IF before[i].product = action.payload
                                    THEN [before[i] EXCEPT !.quantity = @ + 1]
                                    ELSE before[i]
            /\ (/\ action.type = "UPDATE_CART_QUANTITY"
                /\ action.payload.quantity <= 0) =>
                   after = SelectSeq(before,
                                     LAMBDA item : item.product # action.payload.id) ]_vars

(* p1 was added a second time to a cart that holds p1 and p2 *)
C40_Witness ==
    /\ last.log = << [kind |-> "dispatch", type |-> "ADD_TO_CART", payload |-> "p1"] >>
    /\ store.cart = << [product |-> "p1", quantity |-> 2], [product |-> "p2", quantity |-> 1] >>

(* the line of p1 was removed by an update to quantity 0 *)
C40_WitnessRemoved ==
    /\ last.log = << [kind |-> "dispatch", type |-> "UPDATE_CART_QUANTITY",
                      payload |-> [id |-> "p1", quantity |-> 0]] >>
    /\ store.cart = << [product |-> "p2", quantity |-> 1] >>

====
